---------------------------- MODULE Spec2Model ----------------------------
(***************************************************************************)
(* Model of the offline data pipeline of the repository: the streaming     *)
(* FASTQ parser (src/src/fastq-parser.js), the CSV and TSV ingesters       *)
(* (src/src/data-extractor.js, src/src/mapping-parser.js) and the record   *)
(* merger (data-merger.js, kept as src/unnamed/part_003).                  *)
(*                                                                         *)
(* A JavaScript string is a sequence of one-character strings, so that     *)
(* trim, split, substring and includes are computed as the code computes   *)
(* them.  The empty string '' is << >>.                                     *)
(***************************************************************************)
EXTENDS Integers, Sequences, FiniteSets

(***************************************************************************)
(* Bounds of the model.                                                    *)
(***************************************************************************)
MaxFastqLines == 5
MaxTabLines == 3
MaxCsvLineLen == 6
MaxRows == 2
\* the rows of the three inputs of one mergeData call, together
MaxTotalRows == 5
\* the characters of a sequence line and of a quality line
MaxSeqChars == 4
MaxQualLen == 4
\* the rows of the three inputs of one run of processAllData, together
MaxRunRows == 3
\* the FASTQ files of the directory processFastqFiles goes through
MaxFiles == 2
\* the characters of a field value that is written and read back
MaxFieldLen == 2
\* the messages the server writes to one response
MaxMessages == 2
\* the requests the server receives
MaxRequests == 4

(***************************************************************************)
(* Strings.                                                                *)
(***************************************************************************)
NL == "\n"
TAB == "\t"
CR == "\r"
QUOTE == "\""
COMMA == ","

\* the characters String.prototype.trim removes, among those of the model
WhiteSpace == {" ", TAB, CR, NL}

\* JavaScript's undefined: the value of a property an object does not have
Undefined == <<"undefined">>

\* !v for a string-or-undefined value v
Falsy(v) == v = << >> \/ v = Undefined

RECURSIVE TrimStart(_)
TrimStart(s) ==
    IF s # << >> /\ Head(s) \in WhiteSpace THEN TrimStart(Tail(s)) ELSE s

RECURSIVE TrimEnd(_)
TrimEnd(s) ==
    IF s # << >> /\ s[Len(s)] \in WhiteSpace
    THEN TrimEnd(SubSeq(s, 1, Len(s) - 1))
    ELSE s

\* String.prototype.trim
Trim(s) == TrimEnd(TrimStart(s))

\* s.substring(n), for 0 <= n
Substring(s, n) == SubSeq(s, n + 1, Len(s))

\* s.split(sep) for a one-character separator: the pieces between the
\* separators, always at least one piece
RECURSIVE SplitLoop(_, _, _, _, _)
SplitLoop(s, sep, i, cur, acc) ==
    IF i > Len(s) THEN Append(acc, cur)
    ELSE IF s[i] = sep THEN SplitLoop(s, sep, i + 1, << >>, Append(acc, cur))
    ELSE SplitLoop(s, sep, i + 1, Append(cur, s[i]), acc)

Split(s, sep) == SplitLoop(s, sep, 1, << >>, << >>)

\* s.includes(t)
Includes(s, t) ==
    \E i \in 0..(Len(s) - Len(t)) : SubSeq(s, i + 1, i + Len(t)) = t

\* lines joined by newlines: the content of a file with these lines
RECURSIVE JoinLines(_)
JoinLines(ls) ==
    IF ls = << >> THEN << >>
    ELSE IF Len(ls) = 1 THEN ls[1]
    ELSE ls[1] \o <<NL>> \o JoinLines(Tail(ls))

(***************************************************************************)
(* Objects: a JavaScript object (or Map) is the sequence of its            *)
(* <<key, value>> entries in insertion order; assigning to a key it has    *)
(* keeps the entry's position.                                             *)
(***************************************************************************)
ObjKeys(o) == [i \in 1..Len(o) |-> o[i][1]]

ObjHas(o, k) == \E i \in 1..Len(o) : o[i][1] = k

ObjGet(o, k) ==
    IF ObjHas(o, k)
    THEN o[CHOOSE i \in 1..Len(o) : o[i][1] = k][2]
    ELSE Undefined

ObjSet(o, k, v) ==
    IF ObjHas(o, k)
    THEN [i \in 1..Len(o) |-> IF o[i][1] = k THEN <<k, v>> ELSE o[i]]
    ELSE Append(o, <<k, v>>)


(***************************************************************************)
(* State.                                                                  *)
(***************************************************************************)
VARIABLES
    kind,           \* which ingester reads the stream: "fastq", "csv", "tsv"
    text,           \* the content of the file being read
    pos,            \* how many characters the read stream has delivered
    phase,          \* "reading" until 'end' is handled, then "resolved"
    buffer,         \* the handler's buffer: the trailing partial line
    sequences,      \* FastqParser.sequences
    currentEntry,   \* FastqParser.currentEntry
    lineCount,      \* FastqParser.lineCount
    headers,        \* headers of readFaostatData / parseMappingFile
    tabLineCount,   \* lineCount of readFaostatData / parseMappingFile
    tabData,        \* faostatData / mappingData
    midLine,        \* observer: some chunk so far ended inside a line
    csvLine,        \* the line parseCSVLine is called with
    csvValues,      \* what parseCSVLine returned, << >> before the call
    sequenceData,   \* mergeData's argument: the features of the sequences
    faostatData,    \* mergeData's argument: the FAOSTAT rows
    mappingData,    \* mergeData's argument: the mapping rows
    mappingMap,     \* mergeData's local mappingMap
    mergedData,     \* mergeData's local mergedData, which it returns
    outputFile,     \* the content of ./MODEL_TRAINING_DATA.csv
    mergePhase,     \* "ready" before mergeData is called, then "merged"
    entries,        \* the sequences of the parser extractFeatures is called on
    features,       \* what extractFeatures returned, << >> before the call
    fastqFiles,     \* processFastqFiles: the FASTQ files, in directory order
    fileIndex,      \* processFastqFiles: the position of the for loop
    allSequenceData,\* processFastqFiles: allSequenceData
    fileOutcomes,   \* observer: "ok" or "failed" for each file gone through
    runPhase,       \* processAllData: the step that comes next
    extractionSuccessful, \* processAllData: extractionSuccessful
    summary,        \* processAllData: summary, << >> before it is generated
    summaryFile,    \* the content of ./data_summary.json as a value
    caughtError,    \* processAllData: the error its catch block got
    faostatFile,    \* what readFaostatData found: the file's condition
    mappingFile,    \* what parseMappingFile found: the file's condition
    exitCode,       \* the exit status of the process, -1 while it runs
    currentExtractor, \* extract7zFile: currentExtractor
    children,       \* observer: the condition of each child process spawned
    extractPromise, \* the promise extract7zFile returned
    extractLog,     \* what the handlers of extract7zFile wrote to the console
    clientTask,     \* the component that reads: "preprocess" or "train"
    responseBody,   \* the text the server wrote to the response
    received,       \* how many characters of it reader.read() has returned
    clientPhase,    \* "reading" until reader.read() returns done, then "ended"
    handled,        \* observer: the messages the for loop handled, in order
    modelStatus,    \* App's modelStatus: preprocessed and trained
    isBusy,         \* isProcessing / isTraining of the component
    processedData,  \* the server's processedData: "null" or "data"
    trainedModel,   \* the server's trainedModel: "null" or "model"
    requests        \* the requests received: handler position and response

streamVars == <<kind, text, pos, phase, buffer, midLine>>
fastqVars == <<sequences, currentEntry, lineCount>>
tabVars == <<headers, tabLineCount, tabData>>
lineVars == <<csvLine, csvValues>>
mergeVars ==
    <<sequenceData, faostatData, mappingData, mappingMap, mergedData,
      outputFile, mergePhase>>
statVars == <<entries, features>>
filesVars == <<fastqFiles, fileIndex, allSequenceData, fileOutcomes>>
runVars ==
    <<runPhase, extractionSuccessful, summary, summaryFile, caughtError,
      faostatFile, mappingFile, exitCode>>

extractVars == <<currentExtractor, children, extractPromise, extractLog>>
clientVars ==
    <<clientTask, responseBody, received, clientPhase, handled, modelStatus,
      isBusy>>
serverVars == <<processedData, trainedModel, requests>>

(***************************************************************************)
(* FastqParser (src/src/fastq-parser.js).                                  *)
(***************************************************************************)
\* this.currentEntry = {}: every property reads as undefined
EmptyEntry ==
    [header |-> Undefined, sequence |-> Undefined,
     plus |-> Undefined, quality |-> Undefined]

\* the parser as a value: its three fields
Parser(seqs, entry, count) ==
    [sequences |-> seqs, currentEntry |-> entry, lineCount |-> count]

\* constructor()
NewParser == Parser(<< >>, EmptyEntry, 0)

\* a parser for which a blank line takes a position too
parseFastqLine_CountBlank(p, line) ==
    LET trimmedLine == Trim(line)
        lineType == p.lineCount % 4
    IN  IF trimmedLine = << >>
        THEN Parser(p.sequences, p.currentEntry, p.lineCount + 1)
        ELSE IF lineType = 0
        THEN Parser(IF ~Falsy(p.currentEntry.header)
                    THEN Append(p.sequences, p.currentEntry)
                    ELSE p.sequences,
                    [header |-> Substring(trimmedLine, 1), sequence |-> << >>,
                     plus |-> << >>, quality |-> << >>],
                    p.lineCount + 1)
        ELSE IF lineType = 1
        THEN Parser(p.sequences,
                    [p.currentEntry EXCEPT !.sequence = trimmedLine],
                    p.lineCount + 1)
        ELSE IF lineType = 2
        THEN Parser(p.sequences,
                    [p.currentEntry EXCEPT !.plus = trimmedLine],
                    p.lineCount + 1)
        ELSE Parser(p.sequences,
                    [p.currentEntry EXCEPT !.quality = trimmedLine],
                    p.lineCount + 1)

\* parseFastqLine(line)
parseFastqLine(p, line) ==
    LET trimmedLine == Trim(line)
        lineType == p.lineCount % 4
    IN  IF trimmedLine = << >> THEN p
        ELSE IF lineType = 0
        THEN Parser(IF ~Falsy(p.currentEntry.header)
                    THEN Append(p.sequences, p.currentEntry)
                    ELSE p.sequences,
                    [header |-> Substring(trimmedLine, 1), sequence |-> << >>,
                     plus |-> << >>, quality |-> << >>],
                    p.lineCount + 1)
        ELSE IF lineType = 1
        THEN Parser(p.sequences,
                    [p.currentEntry EXCEPT !.sequence = trimmedLine],
                    p.lineCount + 1)
        ELSE IF lineType = 2
        THEN Parser(p.sequences,
                    [p.currentEntry EXCEPT !.plus = trimmedLine],
                    p.lineCount + 1)
        ELSE Parser(p.sequences,
                    [p.currentEntry EXCEPT !.quality = trimmedLine],
                    p.lineCount + 1)

\* lines.forEach(line => this.parseFastqLine(line))
RECURSIVE parseFastqLines(_, _)
parseFastqLines(p, lines) ==
    IF lines = << >> THEN p
    ELSE parseFastqLines(parseFastqLine(p, Head(lines)), Tail(lines))

\* a handler that drops the partial line instead of keeping it
KeepLast_Drop(lines) == << >>

\* buffer = lines.pop(): the piece after the last newline stays in the buffer
KeepLast(lines) == lines[Len(lines)]

\* the complete lines of buffer + chunk
CompleteLines(buf, chunk) ==
    LET lines == Split(buf \o chunk, NL)
    IN  SubSeq(lines, 1, Len(lines) - 1)

\* stream.on('data') of parseFile: the parser after the chunk
FastqOnData(p, buf, chunk) == parseFastqLines(p, CompleteLines(buf, chunk))

\* stream.on('end') of parseFile: the parser when the promise resolves
FastqOnEnd(p, buf) ==
    LET q == IF Trim(buf) # << >> THEN parseFastqLine(p, buf) ELSE p
    IN  IF ~Falsy(q.currentEntry.header)
        THEN Parser(Append(q.sequences, q.currentEntry), q.currentEntry,
                    q.lineCount)
        ELSE q

(***************************************************************************)
(* Tabular ingesters: DataExtractor.readFaostatData and parseCSVLine       *)
(* (src/src/data-extractor.js), MappingParser.parseMappingFile             *)
(* (src/src/mapping-parser.js).                                            *)
(***************************************************************************)
\* let headers = null.  parseCSVLine and split return at least one value,
\* so the empty sequence stands for null.
Null == << >>

\* the ingester's locals as a value
Tab(h, n, d) == [headers |-> h, lineCount |-> n, data |-> d]

NewTab == Tab(Null, 0, << >>)

\* the for loop of parseCSVLine from character i on, with current, inQuotes
\* and values as they stand
RECURSIVE parseCSVLoop(_, _, _, _, _)
parseCSVLoop(line, i, current, inQuotes, values) ==
    IF i > Len(line) THEN Append(values, Trim(current))
    ELSE IF line[i] = QUOTE
    THEN parseCSVLoop(line, i + 1, current, ~inQuotes, values)
    ELSE IF line[i] = COMMA /\ ~inQuotes
    THEN parseCSVLoop(line, i + 1, << >>, inQuotes,
                      Append(values, Trim(current)))
    ELSE parseCSVLoop(line, i + 1, Append(current, line[i]), inQuotes, values)

\* a parser that splits at every comma
parseCSVLine_SplitAll(line) ==
    LET pieces == Split(line, COMMA)
    IN  [i \in 1..Len(pieces) |->
            Trim(SelectSeq(pieces[i], LAMBDA c : c # QUOTE))]

\* parseCSVLine(line)
parseCSVLine(line) == parseCSVLoop(line, 1, << >>, FALSE, << >>)

\* values[index] || ''
ValueAt(values, index) ==
    IF index <= Len(values) /\ ~Falsy(values[index])
    THEN values[index]
    ELSE << >>

\* headers.forEach((header, index) => { row[header] = values[index] || '' })
\* from the header at position index on
RECURSIVE ZipFrom(_, _, _, _)
ZipFrom(row, hs, values, index) ==
    IF index > Len(hs) THEN row
    ELSE ZipFrom(ObjSet(row, hs[index], ValueAt(values, index)),
                 hs, values, index + 1)

\* a row that takes the line's fields as they come, the header count ignored
ZipRow_NoPad(hs, values) ==
    ZipFrom(<< >>, SubSeq(hs, 1, IF Len(values) < Len(hs) THEN Len(values)
                                   ELSE Len(hs)), values, 1)

\* const row = {}; headers.forEach(...)
ZipRow(hs, values) == ZipFrom(<< >>, hs, values, 1)

\* the body of lines.forEach in readFaostatData's 'data' handler
FaostatLine(t, line) ==
    IF Trim(line) = << >> THEN t
    ELSE LET values == parseCSVLine(line)
         IN  IF t.lineCount = 0
             THEN Tab(values, t.lineCount + 1, t.data)
             ELSE IF t.headers # Null
             THEN Tab(t.headers, t.lineCount + 1,
                      Append(t.data, ZipRow(t.headers, values)))
             ELSE Tab(t.headers, t.lineCount + 1, t.data)

RECURSIVE FaostatLines(_, _)
FaostatLines(t, lines) ==
    IF lines = << >> THEN t
    ELSE FaostatLines(FaostatLine(t, Head(lines)), Tail(lines))

\* stream.on('data') of readFaostatData
FaostatOnData(t, buf, chunk) == FaostatLines(t, CompleteLines(buf, chunk))

\* stream.on('end') of readFaostatData
FaostatOnEnd(t, buf) ==
    IF Trim(buf) # << >>
    THEN LET values == parseCSVLine(buf)
         IN  IF t.headers # Null /\ Len(values) > 0
             THEN Tab(t.headers, t.lineCount,
                      Append(t.data, ZipRow(t.headers, values)))
             ELSE t
    ELSE t

\* the body of lines.forEach in parseMappingFile's 'data' handler
MappingLine(t, line) ==
    IF Trim(line) = << >> THEN t
    ELSE LET values == Split(line, TAB)
         IN  IF t.lineCount = 0
             THEN Tab(values, t.lineCount + 1, t.data)
             ELSE IF t.headers # Null
             THEN Tab(t.headers, t.lineCount + 1,
                      Append(t.data, ZipRow(t.headers, values)))
             ELSE Tab(t.headers, t.lineCount + 1, t.data)

RECURSIVE MappingLines(_, _)
MappingLines(t, lines) ==
    IF lines = << >> THEN t
    ELSE MappingLines(MappingLine(t, Head(lines)), Tail(lines))

\* stream.on('data') of parseMappingFile
MappingOnData(t, buf, chunk) == MappingLines(t, CompleteLines(buf, chunk))

\* stream.on('end') of parseMappingFile
MappingOnEnd(t, buf) ==
    IF Trim(buf) # << >>
    THEN LET values == Split(buf, TAB)
         IN  IF t.headers # Null /\ Len(values) > 0
             THEN Tab(t.headers, t.lineCount,
                      Append(t.data, ZipRow(t.headers, values)))
             ELSE t
    ELSE t

(***************************************************************************)
(* The files the ingesters are run on: up to MaxFastqLines (MaxTabLines)   *)
(* lines of the sets below, joined by newlines, with and without a newline *)
(* after the last line.                                                    *)
(***************************************************************************)
FastqLineSet ==
    { <<" ">>, <<"@">>, <<" ", "@", "a">> }

CsvLineSet ==
    { <<" ">>,
      <<"a", COMMA, "b", COMMA, "c">>,
      <<"1", COMMA, QUOTE, "x", COMMA, "y", QUOTE, COMMA, "3">>,
      <<"a", COMMA, "a">>,
      <<COMMA, "p", COMMA, " ", "q", COMMA, "r">> }

TsvLineSet ==
    { <<TAB>>,
      <<"a", TAB, "b">>,
      <<"a", TAB, "a">>,
      <<"p", TAB, TAB, "q", CR>> }

TextsOf(lineSet, maxLines) ==
    LET files == { JoinLines(ls) :
                     ls \in UNION { [1..n -> lineSet] : n \in 0..maxLines } }
    IN  files \cup { f \o <<NL>> : f \in files }

Texts(k) ==
    IF k = "fastq" THEN TextsOf(FastqLineSet, MaxFastqLines)
    ELSE IF k = "csv" THEN TextsOf(CsvLineSet, MaxTabLines)
    ELSE TextsOf(TsvLineSet, MaxTabLines)

(***************************************************************************)
(* Reading one file: the read stream delivers the text in 'data' chunks of *)
(* any sizes and then 'end'.                                               *)
(***************************************************************************)
\* no file is being read
NoStream ==
    /\ kind = "none"
    /\ text = << >>
    /\ pos = 0
    /\ phase = "idle"
    /\ buffer = << >>
    /\ midLine = FALSE
    /\ sequences = NewParser.sequences
    /\ currentEntry = NewParser.currentEntry
    /\ lineCount = NewParser.lineCount
    /\ headers = NewTab.headers
    /\ tabLineCount = NewTab.lineCount
    /\ tabData = NewTab.data

\* parseCSVLine is not being called on its own
NoLine ==
    /\ csvLine = << >>
    /\ csvValues = << >>

\* mergeData is not being called
NoMerge ==
    /\ sequenceData = << >>
    /\ faostatData = << >>
    /\ mappingData = << >>
    /\ mappingMap = << >>
    /\ mergedData = << >>
    /\ outputFile = << >>
    /\ mergePhase = "idle"

\* extract7zFile is not being called
NoExtract ==
    /\ currentExtractor = 0
    /\ children = << >>
    /\ extractPromise = "none"
    /\ extractLog = << >>

\* the server is not running
NoServer ==
    /\ processedData = "null"
    /\ trainedModel = "null"
    /\ requests = << >>

\* no component is reading a response
NoClient ==
    /\ clientTask = "none"
    /\ responseBody = << >>
    /\ received = 0
    /\ clientPhase = "idle"
    /\ handled = << >>
    /\ modelStatus = [preprocessed |-> FALSE, trained |-> FALSE]
    /\ isBusy = FALSE

\* extractFeatures is not being called on its own
NoStats ==
    /\ entries = << >>
    /\ features = << >>

\* processFastqFiles is not being called
NoFiles ==
    /\ fastqFiles = << >>
    /\ fileIndex = 0
    /\ allSequenceData = << >>
    /\ fileOutcomes = << >>

\* processAllData is not running
NoRun ==
    /\ runPhase = "idle"
    /\ extractionSuccessful = FALSE
    /\ summary = << >>
    /\ summaryFile = << >>
    /\ caughtError = "none"
    /\ faostatFile = "unread"
    /\ mappingFile = "unread"
    /\ exitCode = -1

InitIngest ==
    /\ kind \in {"fastq", "csv", "tsv"}
    /\ text \in Texts(kind)
    /\ pos = 0
    /\ phase = "reading"
    /\ buffer = << >>
    /\ midLine = FALSE
    /\ sequences = NewParser.sequences
    /\ currentEntry = NewParser.currentEntry
    /\ lineCount = NewParser.lineCount
    /\ headers = NewTab.headers
    /\ tabLineCount = NewTab.lineCount
    /\ tabData = NewTab.data
    /\ NoLine
    /\ NoMerge
    /\ NoStats
    /\ NoFiles
    /\ NoRun
    /\ NoExtract
    /\ NoClient
    /\ NoServer

\* the stream hands over the next n characters
Deliver(n) ==
    /\ phase = "reading"
    /\ n \in 1..(Len(text) - pos)
    /\ pos' = pos + n
    /\ buffer' = KeepLast(Split(buffer \o SubSeq(text, pos + 1, pos + n), NL))
    /\ midLine' = (midLine \/ (pos + n < Len(text) /\ buffer' # << >>))
    /\ UNCHANGED <<kind, text, phase>>
    /\ UNCHANGED <<lineVars, mergeVars, statVars, filesVars, runVars,
                   extractVars, clientVars, serverVars>>

\* the stream has nothing left and emits 'end'
Finish ==
    /\ phase = "reading"
    /\ pos = Len(text)
    /\ phase' = "resolved"
    /\ UNCHANGED <<kind, text, pos, buffer, midLine>>
    /\ UNCHANGED <<lineVars, mergeVars, statVars, filesVars, runVars,
                   extractVars, clientVars, serverVars>>

\* parseFile: stream.on('data')
FastqData ==
    /\ kind = "fastq"
    /\ \E n \in 1..Len(text) :
        /\ Deliver(n)
        /\ LET p == FastqOnData(Parser(sequences, currentEntry, lineCount),
                                buffer, SubSeq(text, pos + 1, pos + n))
           IN  /\ sequences' = p.sequences
               /\ currentEntry' = p.currentEntry
               /\ lineCount' = p.lineCount
    /\ UNCHANGED tabVars

\* parseFile: stream.on('end'), which resolves with this.sequences
FastqEnd ==
    /\ kind = "fastq"
    /\ Finish
    /\ LET p == FastqOnEnd(Parser(sequences, currentEntry, lineCount), buffer)
       IN  /\ sequences' = p.sequences
           /\ currentEntry' = p.currentEntry
           /\ lineCount' = p.lineCount
    /\ UNCHANGED tabVars

\* readFaostatData: stream.on('data')
FaostatData ==
    /\ kind = "csv"
    /\ \E n \in 1..Len(text) :
        /\ Deliver(n)
        /\ LET t == FaostatOnData(Tab(headers, tabLineCount, tabData),
                                  buffer, SubSeq(text, pos + 1, pos + n))
           IN  /\ headers' = t.headers
               /\ tabLineCount' = t.lineCount
               /\ tabData' = t.data
    /\ UNCHANGED fastqVars

\* readFaostatData: stream.on('end'), which resolves with faostatData
FaostatEnd ==
    /\ kind = "csv"
    /\ Finish
    /\ LET t == FaostatOnEnd(Tab(headers, tabLineCount, tabData), buffer)
       IN  /\ headers' = t.headers
           /\ tabLineCount' = t.lineCount
           /\ tabData' = t.data
    /\ UNCHANGED fastqVars

\* parseMappingFile: stream.on('data')
MappingData ==
    /\ kind = "tsv"
    /\ \E n \in 1..Len(text) :
        /\ Deliver(n)
        /\ LET t == MappingOnData(Tab(headers, tabLineCount, tabData),
                                  buffer, SubSeq(text, pos + 1, pos + n))
           IN  /\ headers' = t.headers
               /\ tabLineCount' = t.lineCount
               /\ tabData' = t.data
    /\ UNCHANGED fastqVars

\* parseMappingFile: stream.on('end'), which resolves with mappingData
MappingEnd ==
    /\ kind = "tsv"
    /\ Finish
    /\ LET t == MappingOnEnd(Tab(headers, tabLineCount, tabData), buffer)
       IN  /\ headers' = t.headers
           /\ tabLineCount' = t.lineCount
           /\ tabData' = t.data
    /\ UNCHANGED fastqVars

vars ==
    <<streamVars, fastqVars, tabVars, lineVars, mergeVars, statVars,
      filesVars, runVars, extractVars, clientVars, serverVars>>

NextIngest ==
    \/ FastqData
    \/ FastqEnd
    \/ FaostatData
    \/ FaostatEnd
    \/ MappingData
    \/ MappingEnd

SpecIngest == InitIngest /\ [][NextIngest]_vars

(***************************************************************************)
(* What the claims speak of: the lines of a file.                          *)
(***************************************************************************)
\* the non-blank lines of a text, in order
NonBlankLines(t) == SelectSeq(Split(t, NL), LAMBDA l : Trim(l) # << >>)

\* the lines the stream has delivered completely: all but the last piece
DeliveredLines == CompleteLines(<< >>, SubSeq(text, 1, pos))

\* line k of nb trimmed, or '' when there is no such line
TrimmedLineOrEmpty(nb, k) == IF k <= Len(nb) THEN Trim(nb[k]) ELSE << >>

\* the record of the g-th group of four non-blank lines
GroupRecord(nb, g) ==
    [header |-> Substring(Trim(nb[4 * g - 3]), 1),
     sequence |-> TrimmedLineOrEmpty(nb, 4 * g - 2),
     plus |-> TrimmedLineOrEmpty(nb, 4 * g - 1),
     quality |-> TrimmedLineOrEmpty(nb, 4 * g)]

\* the records of the groups that have a header, in input order
GroupRecords(nb) ==
    SelectSeq([g \in 1..((Len(nb) + 3) \div 4) |-> GroupRecord(nb, g)],
              LAMBDA r : r.header # << >>)

(***************************************************************************)
(* C1.  FastqParser: blank lines are skipped and take no position, so      *)
(* lineCount is the number of non-blank lines handled; the i-th non-blank  *)
(* line has role i mod 4; the records are those of the groups of four      *)
(* non-blank lines that have a header, in input order: header the trimmed  *)
(* first line less its first character, sequence, plus and quality the     *)
(* trimmed 2nd, 3rd and 4th lines, '' for the lines a trailing partial     *)
(* group lacks.                                                            *)
(***************************************************************************)
C1_ParseFile ==
    kind = "fastq" =>
        /\ phase = "reading" =>
              lineCount = Len(SelectSeq(DeliveredLines,
                                        LAMBDA l : Trim(l) # << >>))
        /\ phase = "resolved" =>
              /\ lineCount = Len(NonBlankLines(text))
              /\ sequences = GroupRecords(NonBlankLines(text))

\* a whitespace-only line between the lines of a group whose record is
\* emitted at end-of-stream without its quality line
C1_Witness ==
    /\ kind = "fastq"
    /\ phase = "resolved"
    /\ Len(sequences) = 1
    /\ sequences[1].plus # << >>
    /\ sequences[1].quality = << >>
    /\ \E i \in 2..(Len(Split(text, NL)) - 1) :
          /\ Trim(Split(text, NL)[i]) = << >>
          /\ Trim(Split(text, NL)[i - 1]) # << >>
          /\ Trim(Split(text, NL)[i + 1]) # << >>

(***************************************************************************)
(* C2.  Chunk independence: however the stream cuts the text into chunks,  *)
(* each ingester resolves with what it resolves with when the whole text   *)
(* arrives in one chunk.                                                   *)
(***************************************************************************)
\* the last piece of the text: the buffer after one chunk holding all of it
LastPiece(t) == KeepLast(Split(t, NL))

WholeFastq(t) ==
    IF t = << >> THEN FastqOnEnd(NewParser, << >>).sequences
    ELSE FastqOnEnd(FastqOnData(NewParser, << >>, t), LastPiece(t)).sequences

WholeFaostat(t) ==
    IF t = << >> THEN FaostatOnEnd(NewTab, << >>).data
    ELSE FaostatOnEnd(FaostatOnData(NewTab, << >>, t), LastPiece(t)).data

WholeMapping(t) ==
    IF t = << >> THEN MappingOnEnd(NewTab, << >>).data
    ELSE MappingOnEnd(MappingOnData(NewTab, << >>, t), LastPiece(t)).data

C2_ChunkIndependence ==
    phase = "resolved" =>
        /\ kind = "fastq" => sequences = WholeFastq(text)
        /\ kind = "csv" => tabData = WholeFaostat(text)
        /\ kind = "tsv" => tabData = WholeMapping(text)

\* a file without a final newline, delivered with a chunk ending inside a
\* line, that yields two rows
C2_Witness ==
    /\ phase = "resolved"
    /\ kind = "tsv"
    /\ midLine
    /\ text # << >>
    /\ text[Len(text)] # NL
    /\ Len(tabData) = 2

(***************************************************************************)
(* C3.  CSV and TSV ingesters: a file with n >= 1 non-blank lines yields   *)
(* n - 1 rows, the k-th from the (k+1)-th non-blank line zipped against    *)
(* the fields of the first.                                                *)
(***************************************************************************)
\* the fields of a line, as the ingester of kind k splits it
Fields(k, line) == IF k = "csv" THEN parseCSVLine(line) ELSE Split(line, TAB)

\* field i of the line, '' when the line has fewer fields
FieldOrEmpty(fs, i) == IF i <= Len(fs) THEN fs[i] ELSE << >>

\* the names of hs without repetitions, in order of first occurrence
FirstOccurrences(hs) ==
    LET firsts == SelectSeq([i \in 1..Len(hs) |-> i],
                            LAMBDA i : \A j \in 1..(i - 1) : hs[j] # hs[i])
    IN  [m \in 1..Len(firsts) |-> hs[firsts[m]]]

\* the last position of name in hs
LastIndex(hs, name) ==
    CHOOSE i \in 1..Len(hs) :
        hs[i] = name /\ \A j \in (i + 1)..Len(hs) : hs[j] # name

OutsideCommas(line) ==
    { i \in 1..Len(line) :
        /\ line[i] = COMMA
        /\ Cardinality({ j \in 1..(i - 1) : line[j] = QUOTE }) % 2 = 0 }

\* the m-th of them from the left; 0 before the first, Len + 1 after the last
CutAt(line, m) ==
    IF m = 0 THEN 0
    ELSE IF m > Cardinality(OutsideCommas(line)) THEN Len(line) + 1
    ELSE CHOOSE i \in OutsideCommas(line) :
            Cardinality({ j \in OutsideCommas(line) : j < i }) = m - 1

\* the fields between the commas outside quotes, quotes removed, trimmed
QuotedFields(line) ==
    [m \in 1..(Cardinality(OutsideCommas(line)) + 1) |->
        Trim(SelectSeq(SubSeq(line, CutAt(line, m - 1) + 1, CutAt(line, m) - 1),
                       LAMBDA c : c # QUOTE))]

ScenarioText ==
    JoinLines(<< <<"a", COMMA, "b", COMMA, "c">>,
                 <<"1", COMMA, QUOTE, "x", COMMA, "y", QUOTE, COMMA, "3">> >>)

ScenarioRow ==
    << << <<"a">>, <<"1">> >>,
       << <<"b">>, <<"x", COMMA, "y">> >>,
       << <<"c">>, <<"3">> >> >>

C5_QuotedDelimiters ==
    (kind = "csv" /\ phase = "resolved") =>
        LET nb == NonBlankLines(text)
        IN  /\ \A k \in 1..Len(nb) :
                  /\ Len(parseCSVLine(nb[k])) =
                         1 + Cardinality(OutsideCommas(nb[k]))
                  /\ parseCSVLine(nb[k]) = QuotedFields(nb[k])
            /\ \A k \in 1..(Len(nb) - 1) :
                  tabData[k] = ZipRow(QuotedFields(nb[1]), QuotedFields(nb[k + 1]))
            /\ text \in {ScenarioText, ScenarioText \o <<NL>>} =>
                  tabData = <<ScenarioRow>>

\* the scenario's file has been ingested
C5_Witness ==
    /\ kind = "csv"
    /\ phase = "resolved"
    /\ text = ScenarioText
    /\ tabData = <<ScenarioRow>>

(***************************************************************************)
(* parseCSVLine on its own: one call on any line of up to MaxCsvLineLen    *)
(* characters among double quote, comma and two letters.                   *)
(***************************************************************************)
CsvAlphabet == {QUOTE, COMMA, "a", "b"}

CsvLines == UNION { [1..n -> CsvAlphabet] : n \in 0..MaxCsvLineLen }

InitCsvLine ==
    /\ NoStream
    /\ NoMerge
    /\ NoStats
    /\ NoFiles
    /\ NoRun
    /\ NoExtract
    /\ NoClient
    /\ NoServer
    /\ csvLine \in CsvLines
    /\ csvValues = << >>

\* const values = this.parseCSVLine(line)
ParseLine ==
    /\ csvValues = << >>
    /\ csvValues' = parseCSVLine(csvLine)
    /\ UNCHANGED <<csvLine, streamVars, fastqVars, tabVars, mergeVars>>
    /\ UNCHANGED <<statVars, filesVars, runVars, extractVars, clientVars,
                   serverVars>>

NextCsvLine == ParseLine

SpecCsvLine == InitCsvLine /\ [][NextCsvLine]_vars

(***************************************************************************)
(* C4.  Doubled-quote escaping: a field written between double quotes, in  *)
(* which every double quote of the value is doubled, parses to the value:  *)
(* "a""b" to a"b.                                                          *)
(***************************************************************************)
\* the text between the quotes of a quoted field doubles each of its quotes
RECURSIVE WellEscaped(_)
WellEscaped(s) ==
    IF s = << >> THEN TRUE
    ELSE IF Head(s) # QUOTE THEN WellEscaped(Tail(s))
    ELSE Len(s) >= 2 /\ s[2] = QUOTE /\ WellEscaped(Tail(Tail(s)))

\* the value it stands for: each "" is one "
RECURSIVE Unescaped(_)
Unescaped(s) ==
    IF s = << >> THEN << >>
    ELSE IF Head(s) # QUOTE THEN <<Head(s)>> \o Unescaped(Tail(s))
    ELSE <<QUOTE>> \o Unescaped(Tail(Tail(s)))

\* the line is one quoted field
IsQuotedField(line) ==
    /\ Len(line) >= 2
    /\ line[1] = QUOTE
    /\ line[Len(line)] = QUOTE
    /\ WellEscaped(SubSeq(line, 2, Len(line) - 1))

\* C4 as stated
C4_DoubledQuotes ==
    (csvValues # << >> /\ IsQuotedField(csvLine)) =>
        csvValues = << Trim(Unescaped(SubSeq(csvLine, 2, Len(csvLine) - 1))) >>

(***************************************************************************)
(* DataMerger (data-merger.js, src/unnamed/part_003).                      *)
(*                                                                         *)
(* A record is an object whose keys are the property names of the program  *)
(* text, written as TLA+ strings; its string values are character          *)
(* sequences.  A number with two decimals (gc_content, quality_score_avg)  *)
(* is kept in hundredths.                                                  *)
(***************************************************************************)
Digits == <<"0", "1", "2", "3", "4", "5", "6", "7", "8", "9">>

\* String(n) for a natural number n
RECURSIVE DecimalString(_)
DecimalString(n) ==
    IF n < 10 THEN <<Digits[n + 1]>>
    ELSE DecimalString(n \div 10) \o <<Digits[(n % 10) + 1]>>

\* the value of a decimal digit
DigitValue(c) == (CHOOSE d \in 1..10 : Digits[d] = c) - 1

\* the digits of s read as a natural number
RECURSIVE ReadDigits(_, _)
ReadDigits(s, acc) ==
    IF s = << >> THEN acc
    ELSE ReadDigits(Tail(s), 10 * acc + DigitValue(Head(s)))

\* parseFloat(s) in hundredths, for s as toFixed(2) writes it ("12.50") or
\* as String writes a natural number ("0")
ParseFloat(s) ==
    LET parts == Split(s, ".")
    IN  IF Len(parts) = 1 THEN 100 * ReadDigits(parts[1], 0)
        ELSE 100 * ReadDigits(parts[1], 0) + ReadDigits(parts[2], 0)

\* v || ''
OrEmpty(v) == IF Falsy(v) THEN << >> ELSE v

\* a record id that counts from zero
RecordId_ZeroBased(index) ==
    <<"r", "e", "c", "o", "r", "d", "_">> \o DecimalString(index)

\* `record_${index + 1}`
RecordId(index) ==
    <<"r", "e", "c", "o", "r", "d", "_">> \o DecimalString(index + 1)

\* agricultural records numbered under the prefix of the sequence records
FaoRecordId_SamePrefix(index) ==
    <<"r", "e", "c", "o", "r", "d", "_">> \o DecimalString(index + 1)

\* `fao_${index + 1}`
FaoRecordId(index) == <<"f", "a", "o", "_">> \o DecimalString(index + 1)

\* 'FAOSTAT_data_en_6-23-2025.csv'
FaostatFileName ==
    <<"F", "A", "O", "S", "T", "A", "T", "_", "d", "a", "t", "a", "_", "e",
      "n", "_", "6", "-", "2", "3", "-", "2", "0", "2", "5", ".", "c", "s",
      "v">>

\* a map that keeps the first row of a key
createMappingMap_FirstWins(mapRows) ==
    LET Fold[k \in 0..Len(mapRows)] ==
            IF k = 0 THEN << >>
            ELSE LET record == mapRows[k]
                     name == ObjGet(record, "sample_name")
                     code == ObjGet(record, "barcode")
                     m1 == IF ~Falsy(name) /\ ~ObjHas(Fold[k - 1], name)
                           THEN ObjSet(Fold[k - 1], name, record)
                           ELSE Fold[k - 1]
                 IN  IF ~Falsy(code) /\ ~ObjHas(m1, code)
                     THEN ObjSet(m1, code, record)
                     ELSE m1
    IN  Fold[Len(mapRows)]

\* mappingData.forEach(record => { ... }) of createMappingMap, from row r on
RECURSIVE createMappingFrom(_, _, _)
createMappingFrom(map, mapRows, r) ==
    IF r > Len(mapRows) THEN map
    ELSE LET record == mapRows[r]
             m1 == IF ~Falsy(ObjGet(record, "sample_name"))
                   THEN ObjSet(map, ObjGet(record, "sample_name"), record)
                   ELSE map
             m2 == IF ~Falsy(ObjGet(record, "barcode"))
                   THEN ObjSet(m1, ObjGet(record, "barcode"), record)
                   ELSE m1
         IN  createMappingFrom(m2, mapRows, r + 1)

\* createMappingMap(mappingData): a Map, its entries in insertion order
createMappingMap(mapRows) == createMappingFrom(<< >>, mapRows, 1)

\* for (const [key, value] of mappingMap.entries()) of findMappingMatch, from
\* entry e on: <<value>> for return value, << >> when the loop ends
RECURSIVE PartialMatch(_, _, _)
PartialMatch(id, lookup, e) ==
    IF e > Len(lookup) THEN << >>
    ELSE IF (~Falsy(id) /\ Includes(id, lookup[e][1]))
            \/ Includes(lookup[e][1], id)
    THEN <<lookup[e][2]>>
    ELSE PartialMatch(id, lookup, e + 1)

\* for (const id of identifiers) of findMappingMatch, from identifier n on
RECURSIVE MatchFrom(_, _, _)
MatchFrom(identifiers, lookup, n) ==
    IF n > Len(identifiers) THEN << >>
    ELSE LET id == identifiers[n]
         IN  IF ~Falsy(id) /\ ObjHas(lookup, id)
             THEN <<ObjGet(lookup, id)>>
             ELSE IF PartialMatch(id, lookup, 1) # << >>
             THEN PartialMatch(id, lookup, 1)
             ELSE MatchFrom(identifiers, lookup, n + 1)

\* a match that looks at the sequence_id alone
findMappingMatch_FirstIdOnly(seqRecord, lookup) ==
    MatchFrom(<<seqRecord.sequence_id>>, lookup, 1)

\* findMappingMatch(seqRecord, mappingMap): <<row>> for a row, << >> for null
findMappingMatch(seqRecord, lookup) ==
    MatchFrom(<<seqRecord.sequence_id, seqRecord.header, seqRecord.source_file>>,
              lookup, 1)

\* baseRecord of mergeData's first forEach, after the mapping match
SeqMergedRecord(seqRecord, index, lookup) ==
    LET baseRecord ==
            << <<"record_id", RecordId(index)>>,
               <<"data_type", "genomic_sequence">>,
               <<"sequence_id", seqRecord.sequence_id>>,
               <<"source_file", seqRecord.source_file>>,
               <<"sequence_length", seqRecord.sequence_length>>,
               <<"gc_content", ParseFloat(seqRecord.gc_content)>>,
               <<"a_count", seqRecord.a_count>>,
               <<"t_count", seqRecord.t_count>>,
               <<"g_count", seqRecord.g_count>>,
               <<"c_count", seqRecord.c_count>>,
               <<"n_count", seqRecord.n_count>>,
               <<"quality_score_avg", ParseFloat(seqRecord.quality_score_avg)>>,
               <<"sequence_complexity", seqRecord.sequence_complexity>>,
               <<"has_ambiguous_bases", seqRecord.has_ambiguous_bases>>,
               <<"sample_name", << >> >>,
               <<"barcode", << >> >>,
               <<"experiment_design", << >> >>,
               <<"target_gene", << >> >>,
               <<"platform", << >> >>,
               <<"area", << >> >>,
               <<"item", << >> >>,
               <<"element", << >> >>,
               <<"year", << >> >>,
               <<"value", << >> >>,
               <<"unit", << >> >> >>
        mappingMatch == findMappingMatch(seqRecord, lookup)
    IN  IF mappingMatch # << >>
        THEN LET row == mappingMatch[1]
                 r1 == ObjSet(baseRecord, "sample_name",
                              OrEmpty(ObjGet(row, "sample_name")))
                 r2 == ObjSet(r1, "barcode", OrEmpty(ObjGet(row, "barcode")))
                 r3 == ObjSet(r2, "experiment_design",
                              OrEmpty(ObjGet(row, "experiment_design_description")))
                 r4 == ObjSet(r3, "target_gene",
                              OrEmpty(ObjGet(row, "target_gene")))
             IN  ObjSet(r4, "platform", OrEmpty(ObjGet(row, "platform")))
        ELSE baseRecord

\* an agricultural record that takes its record id as sequence_id too
FaoMergedRecord_WithSequenceId(faoRecord, index) ==
    << <<"record_id", FaoRecordId(index)>>,
       <<"data_type", "agricultural_statistics">>,
       <<"sequence_id", FaoRecordId(index)>>,
       <<"source_file", FaostatFileName>>,
       <<"sequence_length", 0>>,
       <<"gc_content", 0>>,
       <<"a_count", 0>>,
       <<"t_count", 0>>,
       <<"g_count", 0>>,
       <<"c_count", 0>>,
       <<"n_count", 0>>,
       <<"quality_score_avg", 0>>,
       <<"sequence_complexity", 0>>,
       <<"has_ambiguous_bases", 0>>,
       <<"sample_name", << >> >>,
       <<"barcode", << >> >>,
       <<"experiment_design", << >> >>,
       <<"target_gene", << >> >>,
       <<"platform", << >> >>,
       <<"area", OrEmpty(ObjGet(faoRecord, "Area"))>>,
       <<"item", OrEmpty(ObjGet(faoRecord, "Item"))>>,
       <<"element", OrEmpty(ObjGet(faoRecord, "Element"))>>,
       <<"year", OrEmpty(ObjGet(faoRecord, "Year"))>>,
       <<"value", OrEmpty(ObjGet(faoRecord, "Value"))>>,
       <<"unit", OrEmpty(ObjGet(faoRecord, "Unit"))>> >>

\* faoMergedRecord of mergeData's second forEach
FaoMergedRecord(faoRecord, index) ==
    << <<"record_id", FaoRecordId(index)>>,
       <<"data_type", "agricultural_statistics">>,
       <<"sequence_id", << >> >>,
       <<"source_file", FaostatFileName>>,
       <<"sequence_length", 0>>,
       <<"gc_content", 0>>,
       <<"a_count", 0>>,
       <<"t_count", 0>>,
       <<"g_count", 0>>,
       <<"c_count", 0>>,
       <<"n_count", 0>>,
       <<"quality_score_avg", 0>>,
       <<"sequence_complexity", 0>>,
       <<"has_ambiguous_bases", 0>>,
       <<"sample_name", << >> >>,
       <<"barcode", << >> >>,
       <<"experiment_design", << >> >>,
       <<"target_gene", << >> >>,
       <<"platform", << >> >>,
       <<"area", OrEmpty(ObjGet(faoRecord, "Area"))>>,
       <<"item", OrEmpty(ObjGet(faoRecord, "Item"))>>,
       <<"element", OrEmpty(ObjGet(faoRecord, "Element"))>>,
       <<"year", OrEmpty(ObjGet(faoRecord, "Year"))>>,
       <<"value", OrEmpty(ObjGet(faoRecord, "Value"))>>,
       <<"unit", OrEmpty(ObjGet(faoRecord, "Unit"))>> >>

\* a merge that puts the agricultural records first
MergedRecords_FaoFirst(seqData, faoData, mapData) ==
    LET lookup == createMappingMap(mapData)
    IN  [j \in 1..Len(faoData) |-> FaoMergedRecord(faoData[j], j - 1)]
        \o [k \in 1..Len(seqData) |->
            SeqMergedRecord(seqData[k], k - 1, lookup)]

\* the array mergeData builds and returns: the index of forEach is 0-based
MergedRecords(seqData, faoData, mapData) ==
    LET lookup == createMappingMap(mapData)
    IN  [k \in 1..Len(seqData) |->
            SeqMergedRecord(seqData[k], k - 1, lookup)]
        \o [j \in 1..Len(faoData) |-> FaoMergedRecord(faoData[j], j - 1)]

\* the characters of a property name or data type of the program text
Chars(name) ==
    IF name = "record_id"
    THEN <<"r", "e", "c", "o", "r", "d", "_", "i", "d">>
    ELSE IF name = "data_type"
    THEN <<"d", "a", "t", "a", "_", "t", "y", "p", "e">>
    ELSE IF name = "sequence_id"
    THEN <<"s", "e", "q", "u", "e", "n", "c", "e", "_", "i", "d">>
    ELSE IF name = "source_file"
    THEN <<"s", "o", "u", "r", "c", "e", "_", "f", "i", "l", "e">>
    ELSE IF name = "sequence_length"
    THEN <<"s", "e", "q", "u", "e", "n", "c", "e", "_", "l", "e",
         "n", "g", "t", "h">>
    ELSE IF name = "gc_content"
    THEN <<"g", "c", "_", "c", "o", "n", "t", "e", "n", "t">>
    ELSE IF name = "a_count"
    THEN <<"a", "_", "c", "o", "u", "n", "t">>
    ELSE IF name = "t_count"
    THEN <<"t", "_", "c", "o", "u", "n", "t">>
    ELSE IF name = "g_count"
    THEN <<"g", "_", "c", "o", "u", "n", "t">>
    ELSE IF name = "c_count"
    THEN <<"c", "_", "c", "o", "u", "n", "t">>
    ELSE IF name = "n_count"
    THEN <<"n", "_", "c", "o", "u", "n", "t">>
    ELSE IF name = "quality_score_avg"
    THEN <<"q", "u", "a", "l", "i", "t", "y", "_", "s", "c", "o",
         "r", "e", "_", "a", "v", "g">>
    ELSE IF name = "sequence_complexity"
    THEN <<"s", "e", "q", "u", "e", "n", "c", "e", "_", "c", "o",
         "m", "p", "l", "e", "x", "i", "t", "y">>
    ELSE IF name = "has_ambiguous_bases"
    THEN <<"h", "a", "s", "_", "a", "m", "b", "i", "g", "u", "o",
         "u", "s", "_", "b", "a", "s", "e", "s">>
    ELSE IF name = "sample_name"
    THEN <<"s", "a", "m", "p", "l", "e", "_", "n", "a", "m", "e">>
    ELSE IF name = "barcode"
    THEN <<"b", "a", "r", "c", "o", "d", "e">>
    ELSE IF name = "experiment_design"
    THEN <<"e", "x", "p", "e", "r", "i", "m", "e", "n", "t", "_",
         "d", "e", "s", "i", "g", "n">>
    ELSE IF name = "target_gene"
    THEN <<"t", "a", "r", "g", "e", "t", "_", "g", "e", "n", "e">>
    ELSE IF name = "platform"
    THEN <<"p", "l", "a", "t", "f", "o", "r", "m">>
    ELSE IF name = "area"
    THEN <<"a", "r", "e", "a">>
    ELSE IF name = "item"
    THEN <<"i", "t", "e", "m">>
    ELSE IF name = "element"
    THEN <<"e", "l", "e", "m", "e", "n", "t">>
    ELSE IF name = "year"
    THEN <<"y", "e", "a", "r">>
    ELSE IF name = "value"
    THEN <<"v", "a", "l", "u", "e">>
    ELSE IF name = "unit"
    THEN <<"u", "n", "i", "t">>
    ELSE IF name = "genomic_sequence"
    THEN <<"g", "e", "n", "o", "m", "i", "c", "_", "s", "e", "q",
         "u", "e", "n", "c", "e">>
    ELSE IF name = "agricultural_statistics"
    THEN <<"a", "g", "r", "i", "c", "u", "l", "t", "u", "r", "a",
         "l", "_", "s", "t", "a", "t", "i", "s", "t", "i", "c", "s">>
    ELSE << >>

\* the columns whose values are numbers: typeof value !== 'string'
NumberColumns ==
    {"sequence_length", "gc_content", "a_count", "t_count", "g_count",
     "c_count", "n_count", "quality_score_avg", "sequence_complexity",
     "has_ambiguous_bases"}

\* the columns that hold a number with two decimals, kept in hundredths
HundredthsColumns == {"gc_content", "quality_score_avg"}

\* String(h / 100): no fraction when it is 0, else without trailing zero
HundredthsString(h) ==
    IF h % 100 = 0 THEN DecimalString(h \div 100)
    ELSE IF h % 10 = 0
    THEN DecimalString(h \div 100) \o <<".">> \o DecimalString((h % 100) \div 10)
    ELSE DecimalString(h \div 100) \o <<".">>
             \o DecimalString((h % 100) \div 10) \o DecimalString(h % 10)

\* a replace that leaves the double quotes as they are
DoubleQuotes_Keep(v) == v

\* value.replace(/"/g, '""')
RECURSIVE DoubleQuotes(_)
DoubleQuotes(v) ==
    IF v = << >> THEN << >>
    ELSE IF Head(v) = QUOTE THEN <<QUOTE, QUOTE>> \o DoubleQuotes(Tail(v))
    ELSE <<Head(v)>> \o DoubleQuotes(Tail(v))

\* what writeCSV puts in the line for row[header], as join(',') writes it
Cell(row, header) ==
    LET v == ObjGet(row, header)
    IN  IF header \in HundredthsColumns THEN HundredthsString(v)
        ELSE IF header \in NumberColumns THEN DecimalString(v)
        ELSE LET str == IF header = "data_type" THEN Chars(v) ELSE v
             IN  IF Includes(str, <<COMMA>>) \/ Includes(str, <<QUOTE>>)
                 THEN <<QUOTE>> \o DoubleQuotes(str) \o <<QUOTE>>
                 ELSE str

\* pieces.join(',')
RECURSIVE JoinComma(_)
JoinComma(pieces) ==
    IF pieces = << >> THEN << >>
    ELSE IF Len(pieces) = 1 THEN pieces[1]
    ELSE pieces[1] \o <<COMMA>> \o JoinComma(Tail(pieces))

\* the lines writeCSV writes after the header line, from row k on
RECURSIVE WriteRows(_, _, _)
WriteRows(data, headerNames, k) ==
    IF k > Len(data) THEN << >>
    ELSE JoinComma([i \in 1..Len(headerNames) |-> Cell(data[k], headerNames[i])])
             \o <<NL>> \o WriteRows(data, headerNames, k + 1)

\* writeCSV(data): the content of the output file
writeCSV(data) ==
    IF Len(data) = 0 THEN << >>
    ELSE LET headerNames == ObjKeys(data[1])
         IN  JoinComma([i \in 1..Len(headerNames) |-> Chars(headerNames[i])])
                 \o <<NL>> \o WriteRows(data, headerNames, 1)

(***************************************************************************)
(* One call of mergeData on up to MaxRows sequence features, FAOSTAT rows  *)
(* and mapping rows.                                                       *)
(***************************************************************************)
\* what extractFeatures and processFastqFiles give for a record with this
\* header, sequence and quality, at this position of this file
Feature(id, header, file, len, gc, a, t, g, c, n, quality, complexity) ==
    [sequence_id |-> id, header |-> header, source_file |-> file,
     sequence_length |-> len, gc_content |-> gc,
     a_count |-> a, t_count |-> t, g_count |-> g, c_count |-> c, n_count |-> n,
     quality_score_avg |-> quality, sequence_complexity |-> complexity,
     has_ambiguous_bases |-> IF n > 0 THEN 1 ELSE 0]

Seq1 == <<"s", "e", "q", "_", "1">>
Seq2 == <<"s", "e", "q", "_", "2">>

\* ATGC with quality IIII; a record without sequence and quality lines (its
\* quality_score_avg is the number 0, which parseFloat reads as "0"); GN with
\* quality !!, first of the file fb.  Headers, ids and file names are never
\* empty: parseFile keeps no record without header.
SeqRecordSet ==
    { Feature(Seq1, <<"a", "b">>, <<"f">>, 4, <<"5", "0", ".", "0", "0">>,
              1, 1, 1, 1, 0, <<"4", "0", ".", "0", "0">>, 2),
      Feature(Seq2, <<"c">>, <<"g">>, 0, <<"0", ".", "0", "0">>,
              0, 0, 0, 0, 0, <<"0">>, 0),
      Feature(Seq1, <<"c">>, <<"f", "b">>, 2, <<"5", "0", ".", "0", "0">>,
              0, 0, 1, 0, 1, <<"0", ".", "0", "0">>, 0) }

\* a row of a mapping file with these four columns
MappingRow(name, code, platform) ==
    << <<"sample_name", name>>,
       <<"barcode", code>>,
       <<"experiment_design_description", <<"d">> >>,
       <<"platform", platform>> >>

MappingRowSet ==
    { MappingRow(<< >>, <<"b">>, <<"P", QUOTE>>),
      MappingRow(<<"a", "b">>, <<"f", "b">>, <<"Q">>),
      MappingRow(<<"_", "2">>, <<"b">>, <<"R">>) }

\* a FAOSTAT row with all the columns mergeData reads, and one of a file
\* without most of them
FaostatRowSet ==
    { << <<"Area", <<"X">> >>, <<"Item", <<"i", COMMA, "j">> >>,
         <<"Element", <<"e">> >>,
         <<"Year", <<"2", "0", "2", "0">> >>, <<"Value", <<"5">> >>,
         <<"Unit", <<"t">> >> >>,
      << <<"Area", <<"Y">> >>, <<"Value", << >> >> >> }

SeqsUpTo(set, n) == UNION { [1..k -> set] : k \in 0..n }

InitMerge ==
    /\ NoStream
    /\ NoLine
    /\ NoStats
    /\ NoFiles
    /\ NoRun
    /\ NoExtract
    /\ NoClient
    /\ NoServer
    /\ sequenceData \in SeqsUpTo(SeqRecordSet, MaxRows)
    /\ faostatData \in SeqsUpTo(FaostatRowSet, MaxRows)
    /\ mappingData \in SeqsUpTo(MappingRowSet, MaxRows)
    /\ Len(sequenceData) + Len(faostatData) + Len(mappingData) <= MaxTotalRows
    /\ mappingMap = << >>
    /\ mergedData = << >>
    /\ outputFile = << >>
    /\ mergePhase = "ready"

\* mergeData(sequenceData, faostatData, mappingData)
MergeData ==
    /\ mergePhase = "ready"
    /\ mappingMap' = createMappingMap(mappingData)
    /\ mergedData' = MergedRecords(sequenceData, faostatData, mappingData)
    /\ outputFile' = writeCSV(mergedData')
    /\ mergePhase' = "merged"
    /\ UNCHANGED <<sequenceData, faostatData, mappingData>>
    /\ UNCHANGED <<streamVars, fastqVars, tabVars, lineVars>>
    /\ UNCHANGED <<statVars, filesVars, runVars, extractVars, clientVars,
                   serverVars>>

NextMerge == MergeData

SpecMerge == InitMerge /\ [][NextMerge]_vars

(***************************************************************************)
(* What the claims on the merger speak of.                                 *)
(***************************************************************************)
Merged == mergePhase = "merged"

\* the numbers of sequence and agricultural inputs
S == Len(sequenceData)
F == Len(faostatData)

\* one string contains the other
Related(id, key) == Includes(id, key) \/ Includes(key, id)

\* the entries of the lookup whose key is related to the identifier
Hits(id, lookup) == { e \in 1..Len(lookup) : Related(id, lookup[e][1]) }

Min(set) == CHOOSE x \in set : \A y \in set : x <= y
Max(set) == CHOOSE x \in set : \A y \in set : x >= y

\* the row the description of findMappingMatch gives: that of the first
\* identifier related to some key, by its exact key if there is one and
\* else by the first related key
DescribedMatch(seqRecord, lookup) ==
    LET ids == <<seqRecord.sequence_id, seqRecord.header, seqRecord.source_file>>
        hitting == { n \in 1..3 : Hits(ids[n], lookup) # {} }
    IN  IF hitting = {} THEN << >>
        ELSE LET id == ids[Min(hitting)]
                 exact == { e \in 1..Len(lookup) : lookup[e][1] = id }
             IN  IF exact # {} THEN <<lookup[Min(exact)][2]>>
                 ELSE <<lookup[Min(Hits(id, lookup))][2]>>

MappingFields ==
    {"sample_name", "barcode", "experiment_design", "target_gene", "platform"}

\* the column of a mapping row that fills a field of the merged record
MappingColumn(field) ==
    IF field = "experiment_design" THEN "experiment_design_description"
    ELSE field

(***************************************************************************)
(* C6.  findMappingMatch returns the row of the first of sequence_id,      *)
(* header, source_file that equals, contains or is contained in a lookup   *)
(* key, by exact key before containment; with no such identifier it        *)
(* returns nothing and the merged record's mapping fields are ''.          *)
(***************************************************************************)
C6_MappingMatch ==
    Merged =>
        \A k \in 1..S :
            LET match == DescribedMatch(sequenceData[k], mappingMap)
            IN  /\ findMappingMatch(sequenceData[k], mappingMap) = match
                /\ \A field \in MappingFields :
                      ObjGet(mergedData[k], field) =
                          IF match = << >> THEN << >>
                          ELSE OrEmpty(ObjGet(match[1], MappingColumn(field)))

\* one record whose header is a key, with an earlier key contained in the
\* header, takes the row of the exact key; another record matches nothing
C6_Witness ==
    /\ Merged
    /\ \E k \in 1..S :
          LET rec == sequenceData[k]
          IN  /\ Hits(rec.sequence_id, mappingMap) = {}
              /\ \E e \in 2..Len(mappingMap) :
                    /\ mappingMap[e][1] = rec.header
                    /\ Includes(rec.header, mappingMap[1][1])
                    /\ mappingMap[1][2] # mappingMap[e][2]
                    /\ ObjGet(mergedData[k], "platform") =
                           ObjGet(mappingMap[e][2], "platform")
    /\ \E k \in 1..S :
          /\ DescribedMatch(sequenceData[k], mappingMap) = << >>
          /\ ObjGet(mergedData[k], "platform") = << >>

(***************************************************************************)
(* C7.  createMappingMap: the keys are the non-empty sample_name and       *)
(* barcode values of the mapping rows, and a key maps to the last row      *)
(* that has it.                                                            *)
(***************************************************************************)
\* the rows that have the key as sample_name or barcode
RowsWith(key) ==
    { r \in 1..Len(mappingData) :
        \/ ObjGet(mappingData[r], "sample_name") = key
        \/ ObjGet(mappingData[r], "barcode") = key }

C7_MappingMap ==
    Merged =>
        /\ { mappingMap[e][1] : e \in 1..Len(mappingMap) } =
               { key \in { ObjGet(mappingData[r], c) :
                             r \in 1..Len(mappingData),
                             c \in {"sample_name", "barcode"} } :
                   ~Falsy(key) }
        /\ \A e1, e2 \in 1..Len(mappingMap) :
              mappingMap[e1][1] = mappingMap[e2][1] => e1 = e2
        /\ \A e \in 1..Len(mappingMap) :
              mappingMap[e][2] = mappingData[Max(RowsWith(mappingMap[e][1]))]

\* two rows share a barcode and a record matched through it has the
\* platform of the later row
C7_Witness ==
    /\ Merged
    /\ Len(mappingData) = 2
    /\ ObjGet(mappingData[1], "barcode") = ObjGet(mappingData[2], "barcode")
    /\ ~Falsy(ObjGet(mappingData[1], "barcode"))
    /\ ObjGet(mappingData[1], "platform") # ObjGet(mappingData[2], "platform")
    /\ \E k \in 1..S :
          LET rec == sequenceData[k]
          IN  /\ Hits(rec.sequence_id, mappingMap) = {}
              /\ Hits(rec.header, mappingMap) # {}
              /\ ~ObjHas(mappingMap, rec.header)
              /\ mappingMap[Min(Hits(rec.header, mappingMap))][1] =
                     ObjGet(mappingData[1], "barcode")
              /\ ObjGet(mergedData[k], "platform") =
                     ObjGet(mappingData[2], "platform")

(***************************************************************************)
(* C8.  record_id: the number a record id ends with.                       *)
(***************************************************************************)
\* the pieces of a record id around its underscore
IdPrefix(id) == Split(id, "_")[1]
IdNumber(id) == ReadDigits(Split(id, "_")[Len(Split(id, "_"))], 0)

RecordIdOf(k) == ObjGet(mergedData[k], "record_id")

\* C8 as stated: the k-th emitted record carries the number k, the
\* agricultural records continuing at S + 1
C8_AsStated ==
    Merged => \A k \in 1..Len(mergedData) : IdNumber(RecordIdOf(k)) = k

\* C8 amended: the k-th sequence record is record_k and the j-th
\* agricultural record, emitted after all S sequence records, is fao_j
C8_RecordIds ==
    Merged =>
        /\ \A k \in 1..S :
              /\ IdPrefix(RecordIdOf(k)) = <<"r", "e", "c", "o", "r", "d">>
              /\ IdNumber(RecordIdOf(k)) = k
        /\ \A j \in 1..F :
              /\ IdPrefix(RecordIdOf(S + j)) = <<"f", "a", "o">>
              /\ IdNumber(RecordIdOf(S + j)) = j

\* two sequence records and two agricultural records have been merged
C8_Witness ==
    /\ Merged
    /\ S = 2
    /\ F = 2
    /\ Len(mergedData) = 4

(***************************************************************************)
(* C9.  The record ids of the records of one mergeData call are pairwise   *)
(* distinct.                                                               *)
(***************************************************************************)
C9_UniqueRecordIds ==
    Merged =>
        \A i, j \in 1..Len(mergedData) :
            RecordIdOf(i) = RecordIdOf(j) => i = j

\* a sequence record and an agricultural record carry the same number
C9_Witness ==
    /\ Merged
    /\ \E i, j \in 1..Len(mergedData) :
          /\ i < j
          /\ ObjGet(mergedData[i], "data_type") = "genomic_sequence"
          /\ ObjGet(mergedData[j], "data_type") = "agricultural_statistics"
          /\ IdNumber(RecordIdOf(i)) = IdNumber(RecordIdOf(j))

(***************************************************************************)
(* C10.  Schema: every record has one of the two data types and the same   *)
(* columns in the same order; an agricultural record has 0 in the sequence *)
(* features and '' in sequence_id and the mapping fields; a sequence       *)
(* record has '' in area, item, element, year, value and unit.             *)
(***************************************************************************)
SequenceFeatureFields ==
    {"sequence_length", "gc_content", "a_count", "t_count", "g_count",
     "c_count", "n_count", "quality_score_avg", "sequence_complexity",
     "has_ambiguous_bases"}

FaostatFields == {"area", "item", "element", "year", "value", "unit"}

C10_Schema ==
    Merged =>
        \A k \in 1..Len(mergedData) :
            LET r == mergedData[k]
            IN  /\ ObjKeys(r) = ObjKeys(mergedData[1])
                /\ \A a, b \in 1..Len(r) : r[a][1] = r[b][1] => a = b
                /\ ObjGet(r, "data_type")
                       \in {"genomic_sequence", "agricultural_statistics"}
                /\ ObjGet(r, "data_type") = "agricultural_statistics" =>
                      /\ \A f \in SequenceFeatureFields : ObjGet(r, f) = 0
                      /\ ObjGet(r, "sequence_id") = << >>
                      /\ \A f \in MappingFields : ObjGet(r, f) = << >>
                /\ ObjGet(r, "data_type") = "genomic_sequence" =>
                      \A f \in FaostatFields : ObjGet(r, f) = << >>

\* a matched sequence record with features other than 0 next to an
\* agricultural record with its own fields filled
C10_Witness ==
    /\ Merged
    /\ \E i, j \in 1..Len(mergedData) :
          /\ ObjGet(mergedData[i], "data_type") = "genomic_sequence"
          /\ ObjGet(mergedData[i], "sequence_length") > 0
          /\ ObjGet(mergedData[i], "platform") # << >>
          /\ ObjGet(mergedData[j], "data_type") = "agricultural_statistics"
          /\ ObjGet(mergedData[j], "unit") # << >>

(***************************************************************************)
(* C11.  mergeData returns S + F records: first the S sequence records in  *)
(* input order, then the F agricultural records in input order; the j-th   *)
(* agricultural record has in area, item, element, year, value and unit    *)
(* the Area, Item, Element, Year, Value and Unit of the j-th row ('' for   *)
(* an absent or empty column) and nothing of a sequence or mapping input:  *)
(* '' in sequence_id and the mapping fields, 0 in the sequence features    *)
(* and the name of the FAOSTAT file in source_file.                        *)
(***************************************************************************)
\* the column of a row, '' when the row has none or an empty one
ColumnOrEmpty(row, column) ==
    IF ObjHas(row, column) THEN ObjGet(row, column) ELSE << >>

AgriculturalPairs ==
    << <<"area", "Area">>, <<"item", "Item">>, <<"element", "Element">>,
       <<"year", "Year">>, <<"value", "Value">>, <<"unit", "Unit">> >>

C11_MergeOrder ==
    Merged =>
        /\ Len(mergedData) = S + F
        /\ \A k \in 1..S :
              /\ ObjGet(mergedData[k], "data_type") = "genomic_sequence"
              /\ ObjGet(mergedData[k], "sequence_id") =
                     sequenceData[k].sequence_id
              /\ ObjGet(mergedData[k], "source_file") =
                     sequenceData[k].source_file
              /\ ObjGet(mergedData[k], "sequence_length") =
                     sequenceData[k].sequence_length
        /\ \A j \in 1..F :
              LET rec == mergedData[S + j]
              IN  /\ ObjGet(rec, "data_type") = "agricultural_statistics"
                  /\ \A p \in 1..Len(AgriculturalPairs) :
                        ObjGet(rec, AgriculturalPairs[p][1]) =
                            ColumnOrEmpty(faostatData[j],
                                          AgriculturalPairs[p][2])
                  /\ ObjGet(rec, "sequence_id") = << >>
                  /\ ObjGet(rec, "source_file") = FaostatFileName
                  /\ \A c \in {"sequence_length", "gc_content", "a_count",
                                "t_count", "g_count", "c_count", "n_count",
                                "quality_score_avg", "sequence_complexity",
                                "has_ambiguous_bases"} :
                        ObjGet(rec, c) = 0
                  /\ \A c \in {"sample_name", "barcode",
                                "experiment_design", "target_gene",
                                "platform"} :
                        ObjGet(rec, c) = << >>

\* two different sequence records, one of them matched by a mapping row,
\* then two different rows, one with and one without the Unit column
C11_Witness ==
    /\ Merged
    /\ S = 2
    /\ F = 2
    /\ sequenceData[1] # sequenceData[2]
    /\ ObjGet(mergedData[1], "platform") # << >>
    /\ ObjHas(faostatData[1], "Unit")
    /\ ~ObjHas(faostatData[2], "Unit")
    /\ ObjGet(mergedData[3], "unit") # << >>
    /\ ObjGet(mergedData[4], "unit") = << >>

(***************************************************************************)
(* FastqParser: the features of a record (src/src/fastq-parser.js 72-137). *)
(* The elements of a string are its UTF-16 code units: length, match and   *)
(* substring count them, while for...of takes a surrogate pair, the two    *)
(* units of a character outside the Basic Multilingual Plane, as one       *)
(* character.                                                              *)
(***************************************************************************)
\* the two code units of a character outside the Basic Multilingual Plane
HighSurrogate == "HS"
LowSurrogate == "LS"

\* for (const c of s): the characters of s, each with its code units
RECURSIVE CodePoints(_)
CodePoints(s) ==
    IF s = << >> THEN << >>
    ELSE IF Len(s) >= 2 /\ s[1] = HighSurrogate /\ s[2] = LowSurrogate
    THEN <<SubSeq(s, 1, 2)>> \o CodePoints(SubSeq(s, 3, Len(s)))
    ELSE << <<s[1]>> >> \o CodePoints(Tail(s))

\* a match that ignores case: /[GC]/gi
RECURSIVE MatchGC_AnyCase(_)
MatchGC_AnyCase(sequence) ==
    IF sequence = << >> THEN 0
    ELSE (IF Head(sequence) \in {"G", "C", "g", "c"} THEN 1 ELSE 0)
             + MatchGC_AnyCase(Tail(sequence))

\* (sequence.match(/[GC]/g) || []).length
RECURSIVE MatchGC(_)
MatchGC(sequence) ==
    IF sequence = << >> THEN 0
    ELSE (IF Head(sequence) \in {"G", "C"} THEN 1 ELSE 0)
             + MatchGC(Tail(sequence))

\* const bases = { A: 0, T: 0, G: 0, C: 0, N: 0 }
NoBases == [A |-> 0, T |-> 0, G |-> 0, C |-> 0, N |-> 0]

\* a loop that counts a lowercase letter as its base
RECURSIVE CountBases_AnyCase(_, _, _)
CountBases_AnyCase(chars, k, bases) ==
    IF k > Len(chars) THEN bases
    ELSE LET base == chars[k]
             upper == IF base = <<"g">> THEN <<"G">> ELSE base
         IN  IF upper \in {<<"A">>, <<"T">>, <<"G">>, <<"C">>, <<"N">>}
             THEN CountBases_AnyCase(chars, k + 1,
                             [bases EXCEPT ![upper[1]] = bases[upper[1]] + 1])
             ELSE CountBases_AnyCase(chars, k + 1,
                             [bases EXCEPT !.N = bases.N + 1])

\* the for loop of getSequenceStats over the characters from position k on
RECURSIVE CountBases(_, _, _)
CountBases(chars, k, bases) ==
    IF k > Len(chars) THEN bases
    ELSE LET base == chars[k]
         IN  IF base \in {<<"A">>, <<"T">>, <<"G">>, <<"C">>, <<"N">>}
             THEN CountBases(chars, k + 1,
                             [bases EXCEPT ![base[1]] = bases[base[1]] + 1])
             ELSE CountBases(chars, k + 1,
                             [bases EXCEPT !.N = bases.N + 1])

\* two decimal digits
TwoDigits(n) == <<Digits[(n \div 10) + 1], Digits[(n % 10) + 1]>>

\* (num / den).toFixed(2) for num >= 0 and den > 0: the nearest number of
\* hundredths, written with two decimals
ToFixed2(num, den) ==
    LET h == (200 * num + den) \div (2 * den)
    IN  DecimalString(h \div 100) \o <<".">> \o TwoDigits(h % 100)

\* a getSequenceStats that counts every code unit as a base
getSequenceStats_PerUnit(sequence) ==
    LET length == Len(sequence)
        gcCount == MatchGC(sequence)
        bases == CountBases([i \in 1..length |-> <<sequence[i]>>], 1, NoBases)
    IN  [length |-> length,
         gc_content |-> IF length > 0 THEN ToFixed2(gcCount * 100, length)
                        ELSE ToFixed2(0, 1),
         a_count |-> bases.A, t_count |-> bases.T, g_count |-> bases.G,
         c_count |-> bases.C, n_count |-> bases.N]

\* getSequenceStats(sequence)
getSequenceStats(sequence) ==
    LET length == Len(sequence)
        gcCount == MatchGC(sequence)
        bases == CountBases(CodePoints(sequence), 1, NoBases)
    IN  [length |-> length,
         gc_content |-> IF length > 0 THEN ToFixed2(gcCount * 100, length)
                        ELSE ToFixed2(0, 1),
         a_count |-> bases.A, t_count |-> bases.T, g_count |-> bases.G,
         c_count |-> bases.C, n_count |-> bases.N]

\* char.charCodeAt(0) for the characters of the model
CharCode(unit) ==
    IF unit = "!" THEN 33
    ELSE IF unit = "#" THEN 35
    ELSE IF unit = "5" THEN 53
    ELSE IF unit = "I" THEN 73
    ELSE IF unit = "~" THEN 126
    ELSE IF unit = "A" THEN 65
    ELSE IF unit = "C" THEN 67
    ELSE IF unit = "G" THEN 71
    ELSE IF unit = "N" THEN 78
    ELSE IF unit = "T" THEN 84
    ELSE IF unit = "g" THEN 103
    ELSE IF unit = "+" THEN 43
    ELSE IF unit = HighSurrogate THEN 55357
    ELSE IF unit = LowSurrogate THEN 56832
    ELSE 63

\* the for loop of calculateAverageQuality
RECURSIVE SumQuality(_, _, _)
SumQuality(chars, k, sum) ==
    IF k > Len(chars) THEN sum
    ELSE SumQuality(chars, k + 1, sum + CharCode(chars[k][1]) - 33)

\* a calculateAverageQuality that does not subtract the offset 33
calculateAverageQuality_Raw(qualityString) ==
    IF Falsy(qualityString) THEN <<"0">>
    ELSE ToFixed2(SumQuality(CodePoints(qualityString), 1, 0)
                      + 33 * Len(qualityString), Len(qualityString))

\* calculateAverageQuality(qualityString); the number 0 is <<"0">>
calculateAverageQuality(qualityString) ==
    IF Falsy(qualityString) THEN <<"0">>
    ELSE ToFixed2(SumQuality(CodePoints(qualityString), 1, 0),
                  Len(qualityString))

\* the for loop of calculateComplexity from i on
RECURSIVE AddKmers(_, _, _)
AddKmers(sequence, i, kmers) ==
    IF i > Len(sequence) - 3 THEN kmers
    ELSE AddKmers(sequence, i + 1,
                  kmers \cup {SubSeq(sequence, i + 1, i + 3)})

\* a calculateComplexity that counts the positions
calculateComplexity_Positions(sequence) ==
    IF Len(sequence) < 3 THEN 0 ELSE Len(sequence) - 2

\* calculateComplexity(sequence)
calculateComplexity(sequence) == Cardinality(AddKmers(sequence, 0, {}))

\* `seq_${index + 1}`
SequenceId(index) == <<"s", "e", "q", "_">> \o DecimalString(index + 1)

\* the feature object extractFeatures makes of the entry at this index
EntryFeature(entry, index) ==
    LET stats == getSequenceStats(entry.sequence)
    IN  [sequence_id |-> SequenceId(index),
         header |-> entry.header,
         sequence_length |-> stats.length,
         gc_content |-> stats.gc_content,
         a_count |-> stats.a_count,
         t_count |-> stats.t_count,
         g_count |-> stats.g_count,
         c_count |-> stats.c_count,
         n_count |-> stats.n_count,
         quality_score_avg |-> calculateAverageQuality(entry.quality),
         sequence_complexity |-> calculateComplexity(entry.sequence),
         has_ambiguous_bases |-> IF stats.n_count > 0 THEN 1 ELSE 0]

\* extractFeatures() of a parser with these sequences
extractFeatures(seqs) ==
    [k \in 1..Len(seqs) |-> EntryFeature(seqs[k], k - 1)]

(***************************************************************************)
(* One call of extractFeatures on a parser that holds one record: any      *)
(* sequence of up to MaxSeqChars characters, or any quality line of up to  *)
(* MaxQualLen characters.                                                  *)
(***************************************************************************)
\* A, T, G, C, N, a lowercase letter, and a character outside the Basic
\* Multilingual Plane, each with its code units
SequenceChars ==
    { <<"A">>, <<"T">>, <<"G">>, <<"C">>, <<"N">>, <<"g">>,
      <<HighSurrogate, LowSurrogate>> }

\* Phred+33 quality characters: the lowest, the highest and three between
QualityChars == { <<"!">>, <<"#">>, <<"5">>, <<"I">>, <<"~">> }

\* the string made of these characters
RECURSIVE Concat(_)
Concat(chars) ==
    IF chars = << >> THEN << >> ELSE Head(chars) \o Concat(Tail(chars))

StringsOf(charSet, n) ==
    { Concat(cs) : cs \in UNION { [1..k -> charSet] : k \in 0..n } }

\* the record parseFastqLine makes of four lines
Entry(header, sequence, plus, quality) ==
    [header |-> header, sequence |-> sequence, plus |-> plus,
     quality |-> quality]

StatEntries ==
    { Entry(<<"h">>, s, <<"+">>, << >>) : s \in StringsOf(SequenceChars, MaxSeqChars) }
      \cup { Entry(<<"h">>, << >>, <<"+">>, q) : q \in StringsOf(QualityChars, MaxQualLen) }

InitStats ==
    /\ NoStream
    /\ NoLine
    /\ NoMerge
    /\ NoFiles
    /\ NoRun
    /\ NoExtract
    /\ NoClient
    /\ NoServer
    /\ entries \in { <<e>> : e \in StatEntries }
    /\ features = << >>

\* const features = parser.extractFeatures()
ExtractFeatures ==
    /\ features = << >>
    /\ features' = extractFeatures(entries)
    /\ UNCHANGED entries
    /\ UNCHANGED <<streamVars, fastqVars, tabVars, lineVars, mergeVars>>
    /\ UNCHANGED <<filesVars, runVars, extractVars, clientVars, serverVars>>

NextStats == ExtractFeatures

SpecStats == InitStats /\ [][NextStats]_vars

(***************************************************************************)
(* What the claims on the features speak of.                               *)
(***************************************************************************)
StatsDone == features # << >>

\* the sequence and the quality line of the record, and its features
TheSequence == entries[1].sequence
TheQuality == entries[1].quality
TheFeature == features[1]

\* how many code units of s are in the set
CountIn(s, set) == Cardinality({ i \in 1..Len(s) : s[i] \in set })

\* how many characters of s take two code units
SurrogatePairs(s) ==
    Cardinality({ i \in 1..(Len(s) - 1) :
                    s[i] = HighSurrogate /\ s[i + 1] = LowSurrogate })

BaseSum(f) == f.a_count + f.t_count + f.g_count + f.c_count + f.n_count

\* v is the number of hundredths nearest to num / den
NearestHundredths(v, num, den) ==
    /\ 2 * (100 * num - v * den) <= den
    /\ 2 * (v * den - 100 * num) <= den

\* str is a number written with two decimals
TwoDecimals(str) ==
    /\ Len(str) >= 4
    /\ str[Len(str) - 2] = "."
    /\ \A i \in (1..Len(str)) \ {Len(str) - 2} :
          \E d \in 1..10 : Digits[d] = str[i]

(***************************************************************************)
(* C17.  As stated: the five counts of getSequenceStats add up to length.  *)
(***************************************************************************)
C17_AsStated ==
    StatsDone => TheFeature.sequence_length = BaseSum(TheFeature)

(***************************************************************************)
(* C17.  Amended: length is the number of UTF-16 code units of the         *)
(* sequence; a_count, t_count, g_count and c_count are the numbers of A,   *)
(* T, G and C, n_count is the number of all other characters, where a      *)
(* character outside the Basic Multilingual Plane is one character of two  *)
(* code units.  So the five counts add up to length less the number of     *)
(* such characters, and to length when every character is one code unit.   *)
(***************************************************************************)
C17_BaseCounts ==
    StatsDone =>
        LET f == TheFeature
            s == TheSequence
        IN  /\ f.sequence_length = Len(s)
            /\ f.a_count = CountIn(s, {"A"})
            /\ f.t_count = CountIn(s, {"T"})
            /\ f.g_count = CountIn(s, {"G"})
            /\ f.c_count = CountIn(s, {"C"})
            /\ BaseSum(f) = Len(s) - SurrogatePairs(s)
            /\ SurrogatePairs(s) = 0 => f.sequence_length = BaseSum(f)

\* a sequence of N, a lowercase letter and two bases: four counted
C17_Witness ==
    /\ StatsDone
    /\ Len(TheSequence) = 4
    /\ SurrogatePairs(TheSequence) = 0
    /\ CountIn(TheSequence, {"N"}) = 1
    /\ CountIn(TheSequence, {"g"}) = 1
    /\ TheFeature.n_count = 2
    /\ BaseSum(TheFeature) = 4

(***************************************************************************)
(* C18.  sequence_complexity is the number of distinct substrings of       *)
(* length 3 of the sequence: 0 when the sequence is shorter than 3, never  *)
(* more than max(0, length - 2), and 1 for AAAA.                           *)
(***************************************************************************)
C18_Complexity ==
    StatsDone =>
        LET s == TheSequence
            c == TheFeature.sequence_complexity
        IN  /\ c = Cardinality({ SubSeq(s, i, i + 2) : i \in 1..(Len(s) - 2) })
            /\ Len(s) < 3 => c = 0
            /\ c <= (IF Len(s) >= 2 THEN Len(s) - 2 ELSE 0)
            /\ s = <<"A", "A", "A", "A">> => c = 1

C18_Witness ==
    /\ StatsDone
    /\ TheSequence = <<"A", "A", "A", "A">>
    /\ TheFeature.sequence_complexity = 1

(***************************************************************************)
(* C19.  gc_content is 0 for the empty sequence; otherwise it is           *)
(* 100 * (number of G or C) / length to two decimals, between 0 and 100,   *)
(* and the number of G or C is g_count + c_count.                          *)
(***************************************************************************)
C19_GcContent ==
    StatsDone =>
        LET f == TheFeature
            s == TheSequence
            gc == ParseFloat(f.gc_content)
            n == CountIn(s, {"G", "C"})
        IN  /\ TwoDecimals(f.gc_content)
            /\ Len(s) = 0 => gc = 0
            /\ Len(s) > 0 => NearestHundredths(gc, 100 * n, Len(s))
            /\ gc >= 0
            /\ gc <= 10000
            /\ n = f.g_count + f.c_count

\* two of three bases are G or C: 66.67
C19_Witness ==
    /\ StatsDone
    /\ Len(TheSequence) = 3
    /\ CountIn(TheSequence, {"G"}) = 1
    /\ CountIn(TheSequence, {"C"}) = 1
    /\ CountIn(TheSequence, {"g"}) = 1
    /\ TheFeature.gc_content = <<"6", "6", ".", "6", "7">>

(***************************************************************************)
(* C20.  quality_score_avg is 0 for an empty quality line; otherwise it is *)
(* the sum of (character code - 33) over the characters of the line,       *)
(* divided by its length, to two decimals; a line of '!' only gives 0.00.  *)
(***************************************************************************)
RECURSIVE PhredSum(_)
PhredSum(q) ==
    IF q = << >> THEN 0 ELSE CharCode(Head(q)) - 33 + PhredSum(Tail(q))

C20_AverageQuality ==
    StatsDone =>
        LET q == TheQuality
            avg == TheFeature.quality_score_avg
        IN  /\ q = << >> => avg = <<"0">>
            /\ q # << >> =>
                  /\ TwoDecimals(avg)
                  /\ NearestHundredths(ParseFloat(avg), PhredSum(q), Len(q))
            /\ (q # << >> /\ \A i \in 1..Len(q) : q[i] = "!") =>
                  avg = <<"0", ".", "0", "0">>

C20_Witness ==
    /\ StatsDone
    /\ TheQuality = <<"!", "!", "!", "!">>
    /\ TheFeature.quality_score_avg = <<"0", ".", "0", "0">>

(***************************************************************************)
(* DataMerger.generateDataSummary and the report of processAllData.  A     *)
(* mean is kept as the fraction the division is of, in lowest terms: the   *)
(* rounding of the floating-point division is left out.                    *)
(***************************************************************************)
RECURSIVE GCD(_, _)
GCD(a, b) == IF b = 0 THEN a ELSE GCD(b, a % b)

\* num / den for den > 0
Ratio(num, den) == <<num \div GCD(num, den), den \div GCD(num, den)>>

\* the number 0
Zero == <<0, 1>>

\* data.filter(r => r.data_type === dataType)
OfType(data, dataType) ==
    SelectSeq(data, LAMBDA r : ObjGet(r, "data_type") = dataType)

\* recs.reduce((sum, r) => sum + r[column], 0)
RECURSIVE SumColumn(_, _)
SumColumn(recs, column) ==
    IF recs = << >> THEN 0
    ELSE ObjGet(Head(recs), column) + SumColumn(Tail(recs), column)

\* new Set(data.map(r => r.source_file)).size
UniqueSources(data) ==
    Cardinality({ ObjGet(data[i], "source_file") : i \in 1..Len(data) })

\* a summary whose means are taken over all records
generateDataSummary_AllRecords(data) ==
    LET seqRecords == OfType(data, "genomic_sequence")
    IN  [total_records |-> Len(data),
         sequence_records |-> Len(seqRecords),
         faostat_records |-> Len(OfType(data, "agricultural_statistics")),
         avg_sequence_length |->
             IF Len(data) > 0
             THEN Ratio(SumColumn(data, "sequence_length"), Len(data))
             ELSE Zero,
         avg_gc_content |->
             IF Len(data) > 0
             THEN Ratio(SumColumn(data, "gc_content"), 100 * Len(data))
             ELSE Zero,
         unique_sources |-> UniqueSources(data)]

\* generateDataSummary(data); gc_content is kept in hundredths
generateDataSummary(data) ==
    LET seqRecords == OfType(data, "genomic_sequence")
    IN  [total_records |-> Len(data),
         sequence_records |-> Len(seqRecords),
         faostat_records |-> Len(OfType(data, "agricultural_statistics")),
         avg_sequence_length |->
             IF Len(seqRecords) > 0
             THEN Ratio(SumColumn(seqRecords, "sequence_length"),
                        Len(seqRecords))
             ELSE Zero,
         avg_gc_content |->
             IF Len(seqRecords) > 0
             THEN Ratio(SumColumn(seqRecords, "gc_content"),
                        100 * Len(seqRecords))
             ELSE Zero,
         unique_sources |-> UniqueSources(data)]

\* what JSON.stringify writes for Math.min(...lengths) || 0 and for
\* Math.max(...lengths) || 0: the number in a tuple, and null (the empty
\* tuple) for the Infinity and -Infinity of an empty list
JsonNumberOrNull(set, pick) == IF set = {} THEN << >> ELSE <<pick>>

\* the object createSummaryFile writes, without processing_timestamp and
\* estimated_size_mb
createSummaryFile(sum, data) ==
    LET lengths == { ObjGet(data[i], "sequence_length") : i \in 1..Len(data) }
                       \ {0}
        scored == SelectSeq(data, LAMBDA r : ObjGet(r, "quality_score_avg") > 0)
    IN  [summary |-> sum,
         data_types |->
             [genomic_sequence |-> Len(OfType(data, "genomic_sequence")),
              agricultural_statistics |->
                  Len(OfType(data, "agricultural_statistics"))],
         sequence_stats |->
             IF Len(data) > 0
             THEN [min_length |->
                       JsonNumberOrNull(lengths,
                           CHOOSE x \in lengths \cup {0} :
                               lengths = {} \/
                                   (x \in lengths /\ \A y \in lengths : x <= y)),
                   max_length |->
                       JsonNumberOrNull(lengths,
                           CHOOSE x \in lengths \cup {0} :
                               lengths = {} \/
                                   (x \in lengths /\ \A y \in lengths : x >= y)),
                   avg_quality |->
                       IF Len(scored) > 0
                       THEN Ratio(SumColumn(scored, "quality_score_avg"),
                                  100 * Len(scored))
                       ELSE Zero]
             ELSE [min_length |-> <<0>>, max_length |-> <<0>>,
                   avg_quality |-> Zero],
         columns |-> IF Len(data) > 0 THEN ObjKeys(data[1]) ELSE << >>,
         extraction_status |->
             [fastq_extracted |-> Len(OfType(data, "genomic_sequence")) > 0,
              faostat_loaded |->
                  Len(OfType(data, "agricultural_statistics")) > 0]]

(***************************************************************************)
(* One run of processAllData (src/src/process-all.js 103-199): a step per  *)
(* await.  The archive extraction fails or not; processFastqFiles returns  *)
(* the features of the files it could read; the FAOSTAT file and the       *)
(* mapping file are missing, readable or unreadable (the read stream       *)
(* emits 'error', which rejects the promise).                              *)
(***************************************************************************)
\* process.exit(1)
FailureExitCode == 1

\* the exit status of a process that runs to its end
SuccessExitCode == 0

\* 'No data found to process. Please check your input files.'
NoDataError == "No data found to process. Please check your input files."

\* the error of a read stream, whatever it is
ReadError == "read error"

\* a check that never fails
NoDataFound_Never(seqData, faoData) == FALSE

\* a check that fails as soon as one source is empty
NoDataFound_Either(seqData, faoData) == Len(seqData) = 0 \/ Len(faoData) = 0

\* sequenceData.length === 0 && faostatData.length === 0
NoDataFound(seqData, faoData) == Len(seqData) = 0 /\ Len(faoData) = 0

InitRun ==
    /\ NoExtract
    /\ NoClient
    /\ NoServer
    /\ NoStream
    /\ NoLine
    /\ NoMerge
    /\ NoStats
    /\ NoFiles
    /\ runPhase = "extract"
    /\ extractionSuccessful = FALSE
    /\ summary = << >>
    /\ summaryFile = << >>
    /\ caughtError = "none"
    /\ faostatFile = "unread"
    /\ mappingFile = "unread"
    /\ exitCode = -1

\* the catch block of processAllData: console.error and process.exit(1)
Abort(error) ==
    /\ caughtError' = error
    /\ exitCode' = FailureExitCode
    /\ runPhase' = "failed"

\* Step 1: extract7zFile resolves or rejects; the rejection is caught
Extract7z ==
    /\ runPhase = "extract"
    /\ extractionSuccessful' \in BOOLEAN
    /\ runPhase' = "fastq"
    /\ UNCHANGED <<summary, summaryFile, caughtError, faostatFile,
                   mappingFile, exitCode>>
    /\ UNCHANGED <<streamVars, fastqVars, tabVars, lineVars, mergeVars,
                   statVars, filesVars, extractVars, clientVars, serverVars>>

\* Step 2: processFastqFiles resolves with the features it gathered
ProcessFastq ==
    /\ runPhase = "fastq"
    /\ sequenceData' \in SeqsUpTo(SeqRecordSet, MaxRows)
    /\ Len(sequenceData') <= MaxRunRows
    /\ runPhase' = "faostat"
    /\ UNCHANGED <<faostatData, mappingData, mappingMap, mergedData,
                   outputFile, mergePhase>>
    /\ UNCHANGED <<extractionSuccessful, summary, summaryFile, caughtError,
                   faostatFile, mappingFile, exitCode>>
    /\ UNCHANGED <<streamVars, fastqVars, tabVars, lineVars, statVars,
                   filesVars, extractVars, clientVars, serverVars>>

\* what the run finds at the path of an input file: no file, a file its
\* stream reads to the end, or a file whose stream emits 'error' (a missing
\* file that is opened all the same gives ENOENT)
FileConditions == {"missing", "readable", "unreadable"}

\* an existence test that is always true
ExistsSync_Always(file) == TRUE

\* fs.existsSync(filePath)
ExistsSync(file) == file # "missing"

\* Step 3: readFaostatData resolves with [] for a missing file, with the
\* rows of a file it could read, and rejects when the stream fails
ReadFaostat ==
    /\ runPhase = "faostat"
    /\ faostatFile' \in FileConditions
    /\ IF ~ExistsSync(faostatFile')
       THEN /\ faostatData' = << >>
            /\ runPhase' = "mapping"
            /\ UNCHANGED <<caughtError, exitCode>>
       ELSE IF faostatFile' = "readable"
       THEN /\ faostatData' \in SeqsUpTo(FaostatRowSet, MaxRows)
            /\ Len(sequenceData) + Len(faostatData') <= MaxRunRows
            /\ runPhase' = "mapping"
            /\ UNCHANGED <<caughtError, exitCode>>
       ELSE /\ Abort(ReadError)
            /\ UNCHANGED faostatData
    /\ UNCHANGED <<sequenceData, mappingData, mappingMap, mergedData,
                   outputFile, mergePhase>>
    /\ UNCHANGED <<extractionSuccessful, summary, summaryFile, mappingFile>>
    /\ UNCHANGED <<streamVars, fastqVars, tabVars, lineVars, statVars,
                   filesVars, extractVars, clientVars, serverVars>>

\* Step 4: parseMappingFile, likewise
ParseMapping ==
    /\ runPhase = "mapping"
    /\ mappingFile' \in FileConditions
    /\ IF ~ExistsSync(mappingFile')
       THEN /\ mappingData' = << >>
            /\ runPhase' = "check"
            /\ UNCHANGED <<caughtError, exitCode>>
       ELSE IF mappingFile' = "readable"
       THEN /\ mappingData' \in SeqsUpTo(MappingRowSet, MaxRows)
            /\ Len(sequenceData) + Len(faostatData) + Len(mappingData')
                   <= MaxRunRows
            /\ runPhase' = "check"
            /\ UNCHANGED <<caughtError, exitCode>>
       ELSE /\ Abort(ReadError)
            /\ UNCHANGED mappingData
    /\ UNCHANGED <<sequenceData, faostatData, mappingMap, mergedData,
                   outputFile, mergePhase>>
    /\ UNCHANGED <<extractionSuccessful, summary, summaryFile, faostatFile>>
    /\ UNCHANGED <<streamVars, fastqVars, tabVars, lineVars, statVars,
                   filesVars, extractVars, clientVars, serverVars>>

\* the check before Step 5 throws: nothing is merged or written
NoData ==
    /\ runPhase = "check"
    /\ NoDataFound(sequenceData, faostatData)
    /\ Abort(NoDataError)
    /\ UNCHANGED <<extractionSuccessful, summary, summaryFile, faostatFile,
                   mappingFile>>
    /\ UNCHANGED <<streamVars, fastqVars, tabVars, lineVars, mergeVars,
                   statVars, filesVars, extractVars, clientVars, serverVars>>

\* Step 5: mergeData, which writes the output file
RunMerge ==
    /\ runPhase = "check"
    /\ ~NoDataFound(sequenceData, faostatData)
    /\ mappingMap' = createMappingMap(mappingData)
    /\ mergedData' = MergedRecords(sequenceData, faostatData, mappingData)
    /\ outputFile' = writeCSV(mergedData')
    /\ mergePhase' = "merged"
    /\ runPhase' = "summary"
    /\ UNCHANGED <<sequenceData, faostatData, mappingData>>
    /\ UNCHANGED <<extractionSuccessful, summary, summaryFile, caughtError,
                   faostatFile, mappingFile, exitCode>>
    /\ UNCHANGED <<streamVars, fastqVars, tabVars, lineVars, statVars,
                   filesVars, extractVars, clientVars, serverVars>>

\* Step 6: generateDataSummary and createSummaryFile; the run ends
Summarise ==
    /\ runPhase = "summary"
    /\ summary' = generateDataSummary(mergedData)
    /\ summaryFile' = createSummaryFile(summary', mergedData)
    /\ exitCode' = SuccessExitCode
    /\ runPhase' = "done"
    /\ UNCHANGED <<extractionSuccessful, caughtError, faostatFile,
                   mappingFile>>
    /\ UNCHANGED <<streamVars, fastqVars, tabVars, lineVars, mergeVars,
                   statVars, filesVars, extractVars, clientVars, serverVars>>

NextRun ==
    \/ Extract7z
    \/ ProcessFastq
    \/ ReadFaostat
    \/ ParseMapping
    \/ NoData
    \/ RunMerge
    \/ Summarise

SpecRun == InitRun /\ [][NextRun]_vars

(***************************************************************************)
(* What the claims on a run speak of.                                      *)
(***************************************************************************)
RunDone == runPhase = "done"

\* the positions of the merged records of a data type
Positions(dataType) ==
    { i \in 1..Len(mergedData) : ObjGet(mergedData[i], "data_type") = dataType }

\* the sum of a column over the merged records at these positions
RECURSIVE ColumnSum(_, _)
ColumnSum(positions, column) ==
    IF positions = {} THEN 0
    ELSE LET i == CHOOSE x \in positions : TRUE
         IN  ObjGet(mergedData[i], column) + ColumnSum(positions \ {i}, column)

\* the fraction r is total / count
IsMean(r, total, count) == r[2] > 0 /\ r[1] * count = total * r[2]

(***************************************************************************)
(* C12.  The summary of the merged records: total_records is their number, *)
(* sequence_records and faostat_records are the numbers per data type and  *)
(* add up to it, avg_sequence_length and avg_gc_content are the means of   *)
(* sequence_length and gc_content over the genomic_sequence records, 0     *)
(* when there is none, and unique_sources is the number of distinct        *)
(* source_file values.                                                     *)
(***************************************************************************)
C12_Summary ==
    RunDone =>
        LET seqs == Positions("genomic_sequence")
            faos == Positions("agricultural_statistics")
            n == Cardinality(seqs)
        IN  /\ summary.total_records = Len(mergedData)
            /\ summary.sequence_records = n
            /\ summary.faostat_records = Cardinality(faos)
            /\ summary.sequence_records + summary.faostat_records =
                   summary.total_records
            /\ n = 0 => /\ summary.avg_sequence_length = Zero
                        /\ summary.avg_gc_content = Zero
            /\ n > 0 =>
                  /\ IsMean(summary.avg_sequence_length,
                            ColumnSum(seqs, "sequence_length"), n)
                  /\ IsMean(summary.avg_gc_content,
                            ColumnSum(seqs, "gc_content"), 100 * n)
            /\ summary.unique_sources =
                   Cardinality({ ObjGet(mergedData[i], "source_file") :
                                   i \in 1..Len(mergedData) })

\* sequences of lengths 4 and 2 from two files and one agricultural record:
\* mean length 3 over the two, three sources
C12_Witness ==
    /\ RunDone
    /\ S = 2
    /\ F = 1
    /\ summary.avg_sequence_length = <<3, 1>>
    /\ summary.avg_gc_content = <<50, 1>>
    /\ summary.unique_sources = 3

(***************************************************************************)
(* C13.  When the FASTQ step and the FAOSTAT step both give no record the  *)
(* run fails: the check throws, nothing is merged, no output file and no   *)
(* summary are written, and the process exits with a status other than 0.  *)
(***************************************************************************)
NothingProduced ==
    /\ mergedData = << >>
    /\ outputFile = << >>
    /\ mergePhase = "idle"
    /\ summary = << >>
    /\ summaryFile = << >>

C13_NoDataAborts ==
    (S = 0 /\ F = 0) =>
        /\ NothingProduced
        /\ runPhase \notin {"summary", "done"}
        /\ exitCode # SuccessExitCode
        /\ runPhase = "check" => (ENABLED NoData /\ ~ENABLED RunMerge)
        /\ runPhase = "failed" => (exitCode = FailureExitCode /\ exitCode # 0)

\* both files were read and had no row
C13_Witness ==
    /\ runPhase = "failed"
    /\ caughtError = NoDataError
    /\ faostatFile = "readable"
    /\ mappingFile = "readable"
    /\ mappingData # << >>
    /\ S = 0
    /\ F = 0
    /\ exitCode = 1
    /\ NothingProduced

(***************************************************************************)
(* C14.  With one source empty the run succeeds: without sequence records  *)
(* and with F > 0 rows it merges F records and the summary has             *)
(* sequence_records, avg_sequence_length and avg_gc_content 0; with S > 0  *)
(* sequence records and no row it merges S genomic_sequence records, with  *)
(* or without mapping rows.                                                *)
(***************************************************************************)
\* what holds of every state of a run
DegradesGracefully ==
    /\ caughtError = NoDataError => (S = 0 /\ F = 0)
    /\ runPhase \in {"summary", "done"} => Len(mergedData) = S + F
    /\ (RunDone /\ S = 0 /\ F > 0) =>
          /\ exitCode = SuccessExitCode
          /\ Len(mergedData) = F
          /\ summary.total_records = F
          /\ summary.sequence_records = 0
          /\ summary.avg_sequence_length = Zero
          /\ summary.avg_gc_content = Zero
    /\ (RunDone /\ S > 0 /\ F = 0) =>
          /\ exitCode = SuccessExitCode
          /\ Len(mergedData) = S
          /\ \A i \in 1..S :
                ObjGet(mergedData[i], "data_type") = "genomic_sequence"

\* the step after the check, when one source has records, is the merge
MergesWhenSomeData ==
    (runPhase = "check" /\ S + F > 0) =>
        (runPhase' = "summary" /\ Len(mergedData') = S + F)

C14_GracefulDegradation ==
    []DegradesGracefully /\ [][MergesWhenSomeData]_vars

\* no FASTQ record, a FAOSTAT file of two rows and a mapping file
C14_Witness ==
    /\ RunDone
    /\ S = 0
    /\ F = 2
    /\ mappingData # << >>
    /\ Len(mergedData) = 2
    /\ summary.sequence_records = 0
    /\ exitCode = 0

(***************************************************************************)
(* C15.  The run exits with a status other than 0 only when the FASTQ step *)
(* and the FAOSTAT step both gave no record: a failed extraction and an    *)
(* error while reading an input file are caught and do not end the run.    *)
(***************************************************************************)
C15_OnlyNoDataAborts ==
    (exitCode # -1 /\ exitCode # SuccessExitCode) => (S = 0 /\ F = 0)

(***************************************************************************)
(* DataExtractor.processFastqFiles (src/src/data-extractor.js 71-110): one *)
(* parser for all the files of the directory, which the loop resets by     *)
(* hand after a file it could parse.  The read stream of a file delivers   *)
(* its content in chunks and ends, or emits 'error' at any point, which    *)
(* rejects parseFile.                                                      *)
(***************************************************************************)
\* a record of four lines, and a header and a sequence line without newline
FileTextSet ==
    { <<"@", "a", NL, "A", "C", NL, "+", NL, "!", "!", NL>>,
      <<"@", "b", NL, "G">> }

\* path.basename of the i-th file of the directory
FileName(i) == DecimalString(i) \o <<".", "f", "q">>

\* feature.source_file = path.basename(fastqFile)
WithSourceFile(feature, name) ==
    [x \in DOMAIN feature \cup {"source_file"} |->
        IF x = "source_file" THEN name ELSE feature[x]]

\* features.forEach(feature => { feature.source_file = ... })
TagFeatures(fs, name) == [k \in 1..Len(fs) |-> WithSourceFile(fs[k], name)]

InitFiles ==
    /\ NoLine
    /\ NoMerge
    /\ NoStats
    /\ NoRun
    /\ NoExtract
    /\ NoClient
    /\ NoServer
    /\ fastqFiles \in UNION { [1..n -> FileTextSet] : n \in 0..MaxFiles }
    /\ fileIndex = 1
    /\ allSequenceData = << >>
    /\ fileOutcomes = << >>
    /\ kind = "fastq"
    /\ text = << >>
    /\ pos = 0
    /\ phase = "idle"
    /\ buffer = << >>
    /\ midLine = FALSE
    /\ sequences = NewParser.sequences
    /\ currentEntry = NewParser.currentEntry
    /\ lineCount = NewParser.lineCount
    /\ headers = NewTab.headers
    /\ tabLineCount = NewTab.lineCount
    /\ tabData = NewTab.data

\* parser.parseFile(fastqFile): createReadStream and let buffer = ''
OpenFile ==
    /\ phase = "idle"
    /\ fileIndex <= Len(fastqFiles)
    /\ text' = fastqFiles[fileIndex]
    /\ pos' = 0
    /\ buffer' = << >>
    /\ midLine' = FALSE
    /\ phase' = "reading"
    /\ UNCHANGED kind
    /\ UNCHANGED <<fastqVars, tabVars, lineVars, mergeVars, statVars,
                   filesVars, runVars, extractVars, clientVars, serverVars>>

\* stream.on('end'), then the rest of the try block: extractFeatures, the
\* source file, the push and the reset of the parser
FileEnd ==
    /\ phase = "reading"
    /\ pos = Len(text)
    /\ LET p == FastqOnEnd(Parser(sequences, currentEntry, lineCount), buffer)
       IN  allSequenceData' =
               allSequenceData
                   \o TagFeatures(extractFeatures(p.sequences),
                                  FileName(fileIndex))
    /\ sequences' = << >>
    /\ currentEntry' = EmptyEntry
    /\ lineCount' = 0
    /\ fileOutcomes' = Append(fileOutcomes, "ok")
    /\ fileIndex' = fileIndex + 1
    /\ phase' = "idle"
    /\ UNCHANGED <<kind, text, pos, buffer, midLine, fastqFiles>>
    /\ UNCHANGED <<tabVars, lineVars, mergeVars, statVars, runVars,
                   extractVars, clientVars, serverVars>>

\* stream.on('error', reject), then the catch block: the loop goes on
FileError ==
    /\ phase = "reading"
    /\ fileOutcomes' = Append(fileOutcomes, "failed")
    /\ fileIndex' = fileIndex + 1
    /\ phase' = "idle"
    /\ UNCHANGED <<kind, text, pos, buffer, midLine, fastqFiles,
                   allSequenceData>>
    /\ UNCHANGED <<fastqVars, tabVars, lineVars, mergeVars, statVars,
                   runVars, extractVars, clientVars, serverVars>>

\* return allSequenceData
ReturnSequenceData ==
    /\ phase = "idle"
    /\ fileIndex > Len(fastqFiles)
    /\ phase' = "resolved"
    /\ UNCHANGED <<kind, text, pos, buffer, midLine>>
    /\ UNCHANGED <<fastqVars, tabVars, lineVars, mergeVars, statVars,
                   filesVars, runVars, extractVars, clientVars, serverVars>>

NextFiles ==
    \/ OpenFile
    \/ FastqData
    \/ FileEnd
    \/ FileError
    \/ ReturnSequenceData

SpecFiles == InitFiles /\ [][NextFiles]_vars

(***************************************************************************)
(* C16.  File isolation: a file that could not be read gives no record,    *)
(* and the records with the source_file of a file are those of that        *)
(* file's own lines: nothing of a file gone through before is in them.     *)
(***************************************************************************)
\* the features of the file at position i, parsed on its own
OwnFeatures(i) ==
    TagFeatures(extractFeatures(GroupRecords(NonBlankLines(fastqFiles[i]))),
                FileName(i))

\* what the files gone through give, each on its own, from position i on
RECURSIVE IsolatedFrom(_)
IsolatedFrom(i) ==
    IF i > Len(fileOutcomes) THEN << >>
    ELSE (IF fileOutcomes[i] = "ok" THEN OwnFeatures(i) ELSE << >>)
             \o IsolatedFrom(i + 1)

C16_FileIsolation == allSequenceData = IsolatedFrom(1)

(***************************************************************************)
(* C21.  Base counting is case-sensitive: a_count, t_count, g_count and    *)
(* c_count are the numbers of 'A', 'T', 'G' and 'C' in the sequence; every *)
(* other character, 'N', a lowercase letter or any other symbol, adds one  *)
(* to n_count; has_ambiguous_bases is 1 if and only if n_count > 0, and 0  *)
(* otherwise.                                                              *)
(***************************************************************************)
\* how many characters of s are none of A, T, G, C: its code units that are
\* not, a character of two code units being one character
OtherCharacters(s) ==
    Cardinality({ i \in 1..Len(s) : s[i] \notin {"A", "T", "G", "C"} })
        - SurrogatePairs(s)

C21_CaseSensitiveCounts ==
    StatsDone =>
        LET f == TheFeature
            s == TheSequence
        IN  /\ f.a_count = CountIn(s, {"A"})
            /\ f.t_count = CountIn(s, {"T"})
            /\ f.g_count = CountIn(s, {"G"})
            /\ f.c_count = CountIn(s, {"C"})
            /\ f.n_count = OtherCharacters(s)
            /\ f.has_ambiguous_bases \in {0, 1}
            /\ f.has_ambiguous_bases = 1 <=> f.n_count > 0

\* A, a lowercase g, N and a symbol outside the Basic Multilingual Plane:
\* one A, no G, three others
C21_Witness ==
    /\ StatsDone
    /\ TheSequence = <<"A", "g", "N", HighSurrogate, LowSurrogate>>
    /\ TheFeature.a_count = 1
    /\ TheFeature.g_count = 0
    /\ TheFeature.n_count = 3
    /\ TheFeature.has_ambiguous_bases = 1

(***************************************************************************)
(* C22.  sequence_id is a 1-based index per file, reset per file: in the   *)
(* output of processFastqFiles the features with the source_file of a file *)
(* read to its end carry the ids seq_1, ..., seq_k in order, k being the   *)
(* number of records parsed from that file, whatever files came before it. *)
(***************************************************************************)
\* the features of allSequenceData with the source_file of the file at i
RECURSIVE FeaturesOf(_, _)
FeaturesOf(i, k) ==
    IF k > Len(allSequenceData) THEN << >>
    ELSE (IF allSequenceData[k].source_file = FileName(i)
          THEN <<allSequenceData[k]>> ELSE << >>) \o FeaturesOf(i, k + 1)

C22_IdsPerFile ==
    \A i \in 1..Len(fileOutcomes) :
        fileOutcomes[i] = "ok" =>
            LET fs == FeaturesOf(i, 1)
            IN  /\ Len(fs) = Len(OwnFeatures(i))
                /\ \A k \in 1..Len(fs) : fs[k].sequence_id = SequenceId(k - 1)

(***************************************************************************)
(* C23.  sequence_id is unique among the genomic_sequence records of one   *)
(* run: no two of the features processFastqFiles returns, which mergeData  *)
(* copies one to one into the output, have the same sequence_id.           *)
(***************************************************************************)
C23_UniqueSequenceIds ==
    \A i, j \in 1..Len(allSequenceData) :
        i # j => allSequenceData[i].sequence_id # allSequenceData[j].sequence_id

(***************************************************************************)
(* C24.  A missing input file is not an error: when the FAOSTAT CSV or the *)
(* mapping file does not exist, readFaostatData and parseMappingFile       *)
(* resolve with an empty list, nothing is thrown, and the run goes on to   *)
(* its next step.                                                          *)
(***************************************************************************)
MissingFaostatSkipped ==
    (runPhase = "faostat" /\ faostatFile' = "missing") =>
        /\ faostatData' = << >>
        /\ runPhase' = "mapping"
        /\ caughtError' = "none"
        /\ exitCode' = -1

MissingMappingSkipped ==
    (runPhase = "mapping" /\ mappingFile' = "missing") =>
        /\ mappingData' = << >>
        /\ runPhase' = "check"
        /\ caughtError' = "none"
        /\ exitCode' = -1

C24_MissingFileIsEmpty ==
    [][MissingFaostatSkipped /\ MissingMappingSkipped]_vars

\* both files are missing and the run ends well with the sequence records
C24_Witness ==
    /\ RunDone
    /\ faostatFile = "missing"
    /\ mappingFile = "missing"
    /\ faostatData = << >>
    /\ mappingData = << >>
    /\ S > 0
    /\ Len(mergedData) = S
    /\ exitCode = SuccessExitCode

(***************************************************************************)
(* C25.  writeCSV: for non-empty data the output is one header line, the   *)
(* columns of the first record, and then exactly one comma-delimited line  *)
(* per record, in order; a value is written between double quotes, each    *)
(* double quote in it doubled, if and only if it is a string with a comma  *)
(* or a double quote in it, and every other value is written as it is;     *)
(* for empty data nothing is written, not even a header.                   *)
(***************************************************************************)
\* the positions of a set in increasing order
RECURSIVE Ascending(_)
Ascending(set) ==
    IF set = {} THEN << >>
    ELSE <<Min(set)>> \o Ascending(set \ {Min(set)})

\* the lines of a file: the pieces of its content between the newlines
FileLines(content) ==
    LET ps == Ascending({ i \in 1..Len(content) : content[i] = NL })
    IN  [k \in 1..(Len(ps) + 1) |->
            SubSeq(content,
                   (IF k = 1 THEN 0 ELSE ps[k - 1]) + 1,
                   (IF k > Len(ps) THEN Len(content) + 1 ELSE ps[k]) - 1)]

\* the text of a value: a string is its characters, a number its digits
ValueText(row, header) ==
    LET v == ObjGet(row, header)
    IN  IF header \in HundredthsColumns THEN HundredthsString(v)
        ELSE IF header \in NumberColumns THEN DecimalString(v)
        ELSE IF header = "data_type" THEN Chars(v)
        ELSE v

\* a string with a comma or a double quote in it
NeedsQuotes(row, header) ==
    /\ header \notin NumberColumns
    /\ CountIn(ValueText(row, header), {COMMA, QUOTE}) > 0

\* the field the claim describes for a value
DescribedField(row, header) ==
    LET v == ValueText(row, header)
    IN  IF NeedsQuotes(row, header)
        THEN <<QUOTE>>
                 \o Concat([i \in 1..Len(v) |->
                               IF v[i] = QUOTE THEN <<QUOTE, QUOTE>>
                               ELSE <<v[i]>>])
                 \o <<QUOTE>>
        ELSE v

\* the line the claim describes for a record
DescribedLine(row, headerNames) ==
    JoinComma([i \in 1..Len(headerNames) |->
                  DescribedField(row, headerNames[i])])

C25_WriteCsv ==
    Merged =>
        LET lines == FileLines(outputFile)
            names == ObjKeys(mergedData[1])
        IN  /\ Len(mergedData) = 0 => outputFile = << >>
            /\ Len(mergedData) > 0 =>
                  /\ Len(lines) = Len(mergedData) + 2
                  /\ lines[Len(lines)] = << >>
                  /\ lines[1] = JoinComma([i \in 1..Len(names) |->
                                              Chars(names[i])])
                  /\ \A k \in 1..Len(mergedData) :
                        lines[k + 1] = DescribedLine(mergedData[k], names)

\* a platform with a double quote in a sequence record and an item with a
\* comma in an agricultural record: both between quotes in their lines
C25_Witness ==
    /\ Merged
    /\ Len(mergedData) >= 2
    /\ \E i, j \in 1..Len(mergedData) :
          /\ ObjGet(mergedData[i], "platform") = <<"P", QUOTE>>
          /\ Includes(FileLines(outputFile)[i + 1],
                      <<COMMA, QUOTE, "P", QUOTE, QUOTE, QUOTE, COMMA>>)
          /\ ObjGet(mergedData[j], "item") = <<"i", COMMA, "j">>
          /\ Includes(FileLines(outputFile)[j + 1],
                      <<COMMA, QUOTE, "i", COMMA, "j", QUOTE, COMMA>>)

(***************************************************************************)
(* C26.  Parsing never drops a record: for a file of n non-blank lines,    *)
(* each of one character or more, parseFile resolves with exactly          *)
(* ceil(n / 4) records, a malformed group being emitted with empty fields. *)
(***************************************************************************)
C26_NeverDrops ==
    (kind = "fastq" /\ phase = "resolved") =>
        Len(sequences) = (Len(NonBlankLines(text)) + 3) \div 4

(***************************************************************************)
(* The output of DataMerger.writeCSV read back by DataExtractor's          *)
(* parseCSVLine: one record of two string columns, each value any string   *)
(* of up to MaxFieldLen characters among a letter, a comma, a double quote *)
(* and a space, without whitespace at either end, is written to the output *)
(* file, and the line written for it is parsed.                            *)
(***************************************************************************)
FieldAlphabet == {"a", COMMA, QUOTE, " "}

FieldValues ==
    { v \in UNION { [1..n -> FieldAlphabet] : n \in 0..MaxFieldLen } :
        Trim(v) = v }

InitRoundTrip ==
    /\ NoStream
    /\ NoLine
    /\ NoStats
    /\ NoFiles
    /\ NoRun
    /\ NoExtract
    /\ NoClient
    /\ NoServer
    /\ sequenceData = << >>
    /\ faostatData = << >>
    /\ mappingData = << >>
    /\ mappingMap = << >>
    /\ mergedData \in { << <<(<<"sample_name", v>>), (<<"platform", w>>)>> >> :
                          v \in FieldValues, w \in FieldValues }
    /\ outputFile = << >>
    /\ mergePhase = "idle"

\* await this.writeCSV(data)
WriteCsv ==
    /\ mergePhase = "idle"
    /\ outputFile' = writeCSV(mergedData)
    /\ mergePhase' = "written"
    /\ UNCHANGED <<sequenceData, faostatData, mappingData, mappingMap,
                   mergedData>>
    /\ UNCHANGED <<streamVars, fastqVars, tabVars, lineVars, statVars,
                   filesVars, runVars, extractVars, clientVars, serverVars>>

\* const values = this.parseCSVLine(line), for the line of the record
ReadBack ==
    /\ mergePhase = "written"
    /\ csvLine' = FileLines(outputFile)[2]
    /\ csvValues' = parseCSVLine(csvLine')
    /\ mergePhase' = "read"
    /\ UNCHANGED <<sequenceData, faostatData, mappingData, mappingMap,
                   mergedData, outputFile>>
    /\ UNCHANGED <<streamVars, fastqVars, tabVars, statVars, filesVars,
                   runVars, extractVars, clientVars, serverVars>>

NextRoundTrip ==
    \/ WriteCsv
    \/ ReadBack

SpecRoundTrip == InitRoundTrip /\ [][NextRoundTrip]_vars

(***************************************************************************)
(* C27.  Round trip: for string values without newline and without         *)
(* whitespace at either end, the line writeCSV writes for a record parses  *)
(* to as many fields as the record has columns, each the original value    *)
(* of its column.                                                          *)
(***************************************************************************)
C27_RoundTrip ==
    mergePhase = "read" =>
        /\ Len(csvValues) = Len(mergedData[1])
        /\ \A i \in 1..Len(mergedData[1]) :
              csvValues[i] = mergedData[1][i][2]

(***************************************************************************)
(* DataExtractor.extract7zFile (src/src/data-extractor.js 21-69): the      *)
(* extractors are spawned one after the other by tryNextExtractor, which   *)
(* the 'close' handler (exit code other than 0) and the 'error' handler of *)
(* every child call.  A child that could not be spawned emits 'error' and, *)
(* once its streams are closed, 'close' with a negative code; a child that *)
(* ran emits 'close' with its exit code.                                   *)
(***************************************************************************)
\* const extractors = [7z, 7za, p7zip]
Extractors == <<"7z", "7za", "p7zip">>

\* resolve() and reject() settle a promise that is pending and no other
Settle(promise, outcome) == IF promise = "pending" THEN outcome ELSE promise

\* tryNextExtractor(), the children and the console being these
TryNextExtractor(promise, ch, log) ==
    IF currentExtractor >= Len(Extractors)
    THEN /\ extractPromise' = Settle(promise, "rejected")
         /\ children' = ch
         /\ extractLog' = log
         /\ UNCHANGED currentExtractor
    ELSE /\ children' = Append(ch, "running")
         /\ currentExtractor' = currentExtractor + 1
         /\ extractPromise' = promise
         /\ extractLog' = log

InitExtract ==
    /\ NoClient
    /\ NoServer
    /\ NoStream
    /\ NoLine
    /\ NoMerge
    /\ NoStats
    /\ NoFiles
    /\ NoRun
    /\ currentExtractor = 0
    /\ children = << >>
    /\ extractPromise = "none"
    /\ extractLog = << >>

\* extract7zFile(filePath): the promise, and the first tryNextExtractor()
CallExtract7z ==
    /\ extractPromise = "none"
    /\ TryNextExtractor("pending", children, extractLog)
    /\ UNCHANGED <<streamVars, fastqVars, tabVars, lineVars, mergeVars,
                   statVars, filesVars, runVars, clientVars, serverVars>>

\* extractor.on('error'): the child could not be spawned
ChildError(c) ==
    /\ children[c] = "running"
    /\ TryNextExtractor(extractPromise,
                        [children EXCEPT ![c] = "errored"],
                        Append(extractLog, <<c, "error">>))
    /\ UNCHANGED <<streamVars, fastqVars, tabVars, lineVars, mergeVars,
                   statVars, filesVars, runVars, clientVars, serverVars>>

\* extractor.on('close') with code 0
ChildCloseOk(c) ==
    /\ children[c] = "running"
    /\ children' = [children EXCEPT ![c] = "succeeded"]
    /\ extractPromise' = Settle(extractPromise, "resolved")
    /\ extractLog' = Append(extractLog, <<c, "extracted">>)
    /\ UNCHANGED currentExtractor
    /\ UNCHANGED <<streamVars, fastqVars, tabVars, lineVars, mergeVars,
                   statVars, filesVars, runVars, clientVars, serverVars>>

\* extractor.on('close') with another code: of a child that ran and
\* failed, or of a child that could not be spawned, after its 'error'
ChildCloseFailed(c) ==
    /\ children[c] \in {"running", "errored"}
    /\ TryNextExtractor(extractPromise,
                        [children EXCEPT ![c] = "failed"],
                        Append(extractLog, <<c, "failed">>))
    /\ UNCHANGED <<streamVars, fastqVars, tabVars, lineVars, mergeVars,
                   statVars, filesVars, runVars, clientVars, serverVars>>

NextExtract ==
    \/ CallExtract7z
    \/ \E c \in 1..Len(children) : ChildError(c)
    \/ \E c \in 1..Len(children) : ChildCloseOk(c)
    \/ \E c \in 1..Len(children) : ChildCloseFailed(c)

SpecExtract == InitExtract /\ [][NextExtract]_vars

(***************************************************************************)
(* C28.  The fallback chain of extract7zFile: an extractor is started only *)
(* after the one before it has failed, at most one child process runs at   *)
(* any time, the promise is resolved only on an exit code 0 and rejected   *)
(* only after every extractor has been tried and has failed, for any order *)
(* of the 'error' and 'close' events of the children, both events of one   *)
(* child included.                                                         *)
(***************************************************************************)
HasFailed(c) == children[c] \in {"errored", "failed"}

C28_FallbackChain ==
    /\ Cardinality({ c \in 1..Len(children) : children[c] = "running" }) <= 1
    /\ \A c \in 2..Len(children) : HasFailed(c - 1)
    /\ extractPromise = "resolved" =>
          \E c \in 1..Len(children) : children[c] = "succeeded"
    /\ extractPromise = "rejected" =>
          /\ Len(children) = Len(Extractors)
          /\ \A c \in 1..Len(children) : HasFailed(c)

(***************************************************************************)
(* The client's reading of a streamed response: startPreprocessing         *)
(* (src/src/components/DataPreprocessing.jsx 14-66) and startTraining      *)
(* (src/src/components/ModelTraining.jsx 21-80).  The server writes one    *)
(* line of JSON per message (sendStreamResponse); reader.read() returns    *)
(* the text in chunks cut anywhere, and each chunk is split into lines and *)
(* parsed on its own.  A message is written here as {t}, t the first       *)
(* letter of its type: log, progress, stats (or metrics), complete.  A     *)
(* piece of a JSON object cut in two is no JSON text, as here.             *)
(***************************************************************************)
MessageTypes == {"l", "p", "s", "c"}

\* JSON.stringify(data) + '\n'
sendStreamResponse(type) == <<"{", type, "}", NL>>

\* JSON.parse(line), which throws a SyntaxError for anything but a whole
\* JSON text; the type of the message otherwise
JsonParse(line) ==
    LET t == Trim(line)
    IN  IF Len(t) = 3 /\ t[1] = "{" /\ t[3] = "}" /\ t[2] \in MessageTypes
        THEN t[2]
        ELSE "SyntaxError"

\* the messages a handler writes: 'complete' is the last one, if any
MessageLists ==
    { ms \in UNION { [1..n -> MessageTypes] : n \in 0..MaxMessages } :
        \A i \in 1..Len(ms) : ms[i] = "c" => i = Len(ms) }

\* the response body of these messages
ResponseText(ms) ==
    Concat([i \in 1..Len(ms) |-> sendStreamResponse(ms[i])])

\* the field of modelStatus the component sets on 'complete'
StatusField(task) == IF task = "preprocess" THEN "preprocessed" ELSE "trained"

\* for (const line of lines) { try { ... } catch (e) { } } from line k on
RECURSIVE HandleLines(_, _, _, _, _)
HandleLines(lines, k, done, status, task) ==
    IF k > Len(lines) THEN [handled |-> done, modelStatus |-> status]
    ELSE LET data == JsonParse(lines[k])
         IN  IF data = "SyntaxError"
             THEN HandleLines(lines, k + 1, done, status, task)
             ELSE IF data = "c"
             THEN HandleLines(lines, k + 1, Append(done, data),
                              [status EXCEPT ![StatusField(task)] = TRUE],
                              task)
             ELSE HandleLines(lines, k + 1, Append(done, data), status, task)

\* after setIsProcessing(true) and fetch: startTraining returns at once
\* unless preprocessed is true
InitClient ==
    /\ NoStream
    /\ NoLine
    /\ NoMerge
    /\ NoStats
    /\ NoFiles
    /\ NoRun
    /\ NoExtract
    /\ NoServer
    /\ clientTask \in {"preprocess", "train"}
    /\ responseBody \in { ResponseText(ms) : ms \in MessageLists }
    /\ received = 0
    /\ clientPhase = "reading"
    /\ handled = << >>
    /\ modelStatus = [preprocessed |-> clientTask = "train", trained |-> FALSE]
    /\ isBusy = TRUE

\* const { done, value } = await reader.read() with a chunk, and the loop
\* over its lines
ClientRead ==
    /\ clientPhase = "reading"
    /\ \E n \in 1..(Len(responseBody) - received) :
          LET chunk == SubSeq(responseBody, received + 1, received + n)
              lines == SelectSeq(Split(chunk, NL), LAMBDA l : Trim(l) # << >>)
              after == HandleLines(lines, 1, handled, modelStatus, clientTask)
          IN  /\ received' = received + n
              /\ handled' = after.handled
              /\ modelStatus' = after.modelStatus
    /\ UNCHANGED <<clientTask, responseBody, clientPhase, isBusy>>
    /\ UNCHANGED <<streamVars, fastqVars, tabVars, lineVars, mergeVars,
                   statVars, filesVars, runVars, extractVars, serverVars>>

\* reader.read() returns done: break, and finally setIsProcessing(false)
ClientEnd ==
    /\ clientPhase = "reading"
    /\ received = Len(responseBody)
    /\ clientPhase' = "ended"
    /\ isBusy' = FALSE
    /\ UNCHANGED <<clientTask, responseBody, received, handled, modelStatus>>
    /\ UNCHANGED <<streamVars, fastqVars, tabVars, lineVars, mergeVars,
                   statVars, filesVars, runVars, extractVars, serverVars>>

\* reader.read() rejects: catch (error) and finally setIsProcessing(false)
ClientError ==
    /\ clientPhase = "reading"
    /\ clientPhase' = "failed"
    /\ isBusy' = FALSE
    /\ UNCHANGED <<clientTask, responseBody, received, handled, modelStatus>>
    /\ UNCHANGED <<streamVars, fastqVars, tabVars, lineVars, mergeVars,
                   statVars, filesVars, runVars, extractVars, serverVars>>

NextClient ==
    \/ ClientRead
    \/ ClientEnd
    \/ ClientError

SpecClient == InitClient /\ [][NextClient]_vars

(***************************************************************************)
(* C29.  However the transport cuts the server's stream into chunks, the   *)
(* client handles every message the server wrote exactly once and in       *)
(* order; when the server wrote 'complete', preprocessed (or trained) is   *)
(* true in the UI state; the busy flag is cleared when the stream ends.    *)
(***************************************************************************)
\* the messages the server wrote to the response
MessagesWritten ==
    LET lines == Split(responseBody, NL)
    IN  [i \in 1..(Len(lines) - 1) |-> JsonParse(lines[i])]

C29_EveryMessageHandled ==
    clientPhase = "ended" =>
        /\ handled = MessagesWritten
        /\ (\E i \in 1..Len(MessagesWritten) : MessagesWritten[i] = "c") =>
              modelStatus[StatusField(clientTask)]
        /\ ~isBusy

(***************************************************************************)
(* The Express server (server.js, src/unnamed/part_005): the globals       *)
(* processedData and trainedModel and the handlers of /api/preprocess,     *)
(* /api/train, /api/model/status and /api/predict.  A handler runs until   *)
(* its next await, where the handlers of other requests may run.  A        *)
(* request is kept with the position of its handler, the status of its     *)
(* response and the messages written to it; the answer of the status       *)
(* endpoint is kept in its two flags.                                      *)
(***************************************************************************)
Request(endpoint, pc, status, body) ==
    [endpoint |-> endpoint, pc |-> pc, status |-> status, body |-> body,
     preprocessed |-> FALSE, trained |-> FALSE]

\* sendStreamResponse for each of these messages, on request i
Written(i, pc, messages) ==
    [requests EXCEPT ![i].pc = pc, ![i].body = requests[i].body \o messages]

\* a check that lets every request train
TrainAllowed_Always(data) == TRUE

\* if (!processedData) throw ... : the check of /api/train
TrainAllowed(data) == data # "null"

InitServer ==
    /\ NoStream
    /\ NoLine
    /\ NoMerge
    /\ NoStats
    /\ NoFiles
    /\ NoRun
    /\ NoExtract
    /\ NoClient
    /\ processedData = "null"
    /\ trainedModel = "null"
    /\ requests = << >>

\* POST /api/preprocess up to await loadFaostatData()
PreprocessRequest ==
    /\ Len(requests) < MaxRequests
    /\ requests' = Append(requests,
                          Request("preprocess", "loading", 200,
                                  <<"log", "progress", "log">>))
    /\ UNCHANGED <<processedData, trainedModel>>
    /\ UNCHANGED <<streamVars, fastqVars, tabVars, lineVars, mergeVars,
                   statVars, filesVars, runVars, extractVars, clientVars>>

\* loadFaostatData resolved: the writes up to await scaleFeatures(...)
PreprocessLoaded(i) ==
    /\ requests[i].endpoint = "preprocess"
    /\ requests[i].pc = "loading"
    /\ requests' = Written(i, "scaling",
                           <<"progress", "log", "progress", "log", "progress",
                             "log", "progress", "log", "progress", "log",
                             "progress", "log">>)
    /\ UNCHANGED <<processedData, trainedModel>>
    /\ UNCHANGED <<streamVars, fastqVars, tabVars, lineVars, mergeVars,
                   statVars, filesVars, runVars, extractVars, clientVars>>

\* an awaited step rejected (the FAOSTAT file is not found): the catch
\* block writes the error and the response ends
PreprocessFailed(i) ==
    /\ requests[i].endpoint = "preprocess"
    /\ requests[i].pc \in {"loading", "scaling"}
    /\ requests' = Written(i, "ended", <<"log_error">>)
    /\ UNCHANGED <<processedData, trainedModel>>
    /\ UNCHANGED <<streamVars, fastqVars, tabVars, lineVars, mergeVars,
                   statVars, filesVars, runVars, extractVars, clientVars>>

\* processedData = await scaleFeatures(encodedData), and the rest
PreprocessScaled(i) ==
    /\ requests[i].endpoint = "preprocess"
    /\ requests[i].pc = "scaling"
    /\ processedData' = "data"
    /\ requests' = Written(i, "ended",
                           <<"progress", "stats", "progress", "log",
                             "complete">>)
    /\ UNCHANGED trainedModel
    /\ UNCHANGED <<streamVars, fastqVars, tabVars, lineVars, mergeVars,
                   statVars, filesVars, runVars, extractVars, clientVars>>

\* POST /api/train up to await prepareTrainingData(processedData), or to
\* the end when there is no processed data
TrainRequest ==
    /\ Len(requests) < MaxRequests
    /\ requests' =
           Append(requests,
                  IF TrainAllowed(processedData)
                  THEN Request("train", "preparing", 200,
                               <<"log", "progress", "log">>)
                  ELSE Request("train", "ended", 200, <<"log_error">>))
    /\ UNCHANGED <<processedData, trainedModel>>
    /\ UNCHANGED <<streamVars, fastqVars, tabVars, lineVars, mergeVars,
                   statVars, filesVars, runVars, extractVars, clientVars>>

\* prepareTrainingData resolved: up to await trainXGBoostModel(...)
TrainPrepared(i) ==
    /\ requests[i].endpoint = "train"
    /\ requests[i].pc = "preparing"
    /\ requests' = Written(i, "training", <<"progress", "log">>)
    /\ UNCHANGED <<processedData, trainedModel>>
    /\ UNCHANGED <<streamVars, fastqVars, tabVars, lineVars, mergeVars,
                   statVars, filesVars, runVars, extractVars, clientVars>>

\* trainedModel = await trainXGBoostModel(...), up to await evaluateModel
TrainTrained(i) ==
    /\ requests[i].endpoint = "train"
    /\ requests[i].pc = "training"
    /\ trainedModel' = "model"
    /\ requests' = Written(i, "evaluating", <<"progress", "log">>)
    /\ UNCHANGED processedData
    /\ UNCHANGED <<streamVars, fastqVars, tabVars, lineVars, mergeVars,
                   statVars, filesVars, runVars, extractVars, clientVars>>

\* evaluateModel resolved: the metrics and 'complete'
TrainEvaluated(i) ==
    /\ requests[i].endpoint = "train"
    /\ requests[i].pc = "evaluating"
    /\ requests' = Written(i, "ended",
                           <<"progress", "metrics", "progress", "log",
                             "complete">>)
    /\ UNCHANGED <<processedData, trainedModel>>
    /\ UNCHANGED <<streamVars, fastqVars, tabVars, lineVars, mergeVars,
                   statVars, filesVars, runVars, extractVars, clientVars>>

\* GET /api/model/status
StatusRequest ==
    /\ Len(requests) < MaxRequests
    /\ requests' =
           Append(requests,
                  [Request("status", "ended", 200, <<"status">>)
                      EXCEPT !.preprocessed = (processedData # "null"),
                             !.trained = (trainedModel # "null")])
    /\ UNCHANGED <<processedData, trainedModel>>
    /\ UNCHANGED <<streamVars, fastqVars, tabVars, lineVars, mergeVars,
                   statVars, filesVars, runVars, extractVars, clientVars>>

\* POST /api/predict up to await makePrediction(...), or the answer 400
PredictRequest ==
    /\ Len(requests) < MaxRequests
    /\ requests' =
           Append(requests,
                  IF trainedModel = "null"
                  THEN Request("predict", "ended", 400, <<"error">>)
                  ELSE Request("predict", "predicting", 0, << >>))
    /\ UNCHANGED <<processedData, trainedModel>>
    /\ UNCHANGED <<streamVars, fastqVars, tabVars, lineVars, mergeVars,
                   statVars, filesVars, runVars, extractVars, clientVars>>

\* makePrediction resolved: res.json with the prediction; or it threw
\* (no features in the request) and the catch block answers 500
PredictAnswered(i) ==
    /\ requests[i].endpoint = "predict"
    /\ requests[i].pc = "predicting"
    /\ \/ requests' = [requests EXCEPT ![i].pc = "ended", ![i].status = 200,
                                       ![i].body = <<"prediction">>]
       \/ requests' = [requests EXCEPT ![i].pc = "ended", ![i].status = 500,
                                       ![i].body = <<"error">>]
    /\ UNCHANGED <<processedData, trainedModel>>
    /\ UNCHANGED <<streamVars, fastqVars, tabVars, lineVars, mergeVars,
                   statVars, filesVars, runVars, extractVars, clientVars>>

NextServer ==
    \/ PreprocessRequest
    \/ \E i \in 1..Len(requests) : PreprocessLoaded(i)
    \/ \E i \in 1..Len(requests) : PreprocessFailed(i)
    \/ \E i \in 1..Len(requests) : PreprocessScaled(i)
    \/ TrainRequest
    \/ \E i \in 1..Len(requests) : TrainPrepared(i)
    \/ \E i \in 1..Len(requests) : TrainTrained(i)
    \/ \E i \in 1..Len(requests) : TrainEvaluated(i)
    \/ StatusRequest
    \/ PredictRequest
    \/ \E i \in 1..Len(requests) : PredictAnswered(i)

SpecServer == InitServer /\ [][NextServer]_vars

(***************************************************************************)
(* C30.  In every interleaving of the requests: trainedModel is set only   *)
(* when processedData is set, so the status endpoint never reports trained *)
(* with preprocessed false; a /api/train request handled while             *)
(* processedData is null writes an error log, never writes 'complete' and  *)
(* leaves trainedModel as it is; a /api/predict request handled while      *)
(* trainedModel is null is answered with status 400 and no prediction.     *)
(***************************************************************************)
\* the request this step has received, when it has received one
Arrives(endpoint) ==
    /\ Len(requests') = Len(requests) + 1
    /\ requests'[Len(requests')].endpoint = endpoint

NewRequest == requests'[Len(requests')]

TrainedOnlyWhenPreprocessed ==
    /\ trainedModel # "null" => processedData # "null"
    /\ \A i \in 1..Len(requests) :
          (requests[i].endpoint = "status" /\ requests[i].trained) =>
              requests[i].preprocessed

TrainRefused ==
    (Arrives("train") /\ processedData = "null") =>
        /\ NewRequest.body = <<"log_error">>
        /\ NewRequest.pc = "ended"
        /\ trainedModel' = trainedModel

PredictRefused ==
    (Arrives("predict") /\ trainedModel = "null") =>
        /\ NewRequest.status = 400
        /\ NewRequest.body = <<"error">>
        /\ NewRequest.pc = "ended"

\* nothing is written to a response that has ended
EndedForGood ==
    \A i \in 1..Len(requests) :
        requests[i].pc = "ended" => requests'[i] = requests[i]

C30_ServerState ==
    /\ []TrainedOnlyWhenPreprocessed
    /\ [][TrainRefused /\ PredictRefused /\ EndedForGood]_vars

\* a train request refused before the preprocessing, then the preprocessing
\* and a training, and the status endpoint reporting both
C30_Witness ==
    /\ Len(requests) = 4
    /\ requests[1].endpoint = "train"
    /\ requests[1].body = <<"log_error">>
    /\ requests[2].endpoint = "preprocess"
    /\ requests[3].endpoint = "train"
    /\ requests[3].body[Len(requests[3].body)] = "complete"
    /\ requests[4].endpoint = "status"
    /\ requests[4].preprocessed
    /\ requests[4].trained
    /\ processedData = "data"
    /\ trainedModel = "model"

=============================================================================
